---- MODULE Spec2Model ----
(***************************************************************************)
(* A model of that-cli-web-toolbox: the command runThatCliWebBrowser       *)
(* (main.go) and the browser session wrapper of pkg/chromedp/chromedp.go   *)
(* (InitializeChromedp, Browser.Cancel, NavigateAndPrepare, the listeners  *)
(* and the action executors).                                              *)
(*                                                                         *)
(* Strings are sequences of one-character strings, so that prefix,         *)
(* substring and split are computed as the Go code computes them.  Error   *)
(* messages are sequences of pieces in the order fmt.Errorf lays them out. *)
(***************************************************************************)
EXTENDS Integers, Sequences, FiniteSets, TLC

\* ------------------------------------------------------------------ bounds

\* Longest remote endpoint drawn from EndpointChars.
MaxEndpointLen == 3

\* How many times a client invokes Browser.Cancel on one session.
MaxCancels == 3

\* How many times a client invokes NavigateAndPrepare on one session.
MaxPrepares == 2

\* Longest text put before the core of a script.
MaxPad == 1

\* The most events the browser delivers to the listeners of one session.
MaxEvents == 2

\* The most listeners a client attaches to one session.
MaxListeners == 2

\* The most calls of action executors a client makes on one session.
MaxExecutorCalls == 1

\* The most frames in the stack trace of an exception event.
MaxFrames == 1

\* The most elements a document holds.
MaxElements == 2

\* The most calls of GetTextBySelector a client makes on a session.
MaxTextCalls == 2

\* The longest JSON of an argument of a call of the console.
MaxValueLen == 3

\* The most arguments of a call of the console.
MaxArgs == 2

\* Go's int is 64 bits wide and wraps around; the model keeps the wrap-around
\* with a narrower int, whose largest value is MaxInt.
MaxInt == 31

\* ----------------------------------------------------------------- strings

\* strings.HasPrefix
HasPrefix(s, p) == Len(s) >= Len(p) /\ SubSeq(s, 1, Len(p)) = p

\* strings.Index, 1-based; 0 when sub does not occur in s.
RECURSIVE IndexFrom(_, _, _)
IndexFrom(s, sub, i) ==
    IF i + Len(sub) - 1 > Len(s) THEN 0
    ELSE IF SubSeq(s, i, i + Len(sub) - 1) = sub THEN i
    ELSE IndexFrom(s, sub, i + 1)

Index(s, sub) == IndexFrom(s, sub, 1)

\* strings.Contains
Contains(s, sub) == Index(s, sub) # 0

\* strings.Split with a non-empty separator: cut at every occurrence.
RECURSIVE Split(_, _)
Split(s, sep) ==
    LET i == Index(s, sep)
    IN  IF i = 0 THEN << s >>
        ELSE << SubSeq(s, 1, i - 1) >> \o Split(SubSeq(s, i + Len(sep), Len(s)), sep)

\* All sequences over S of length 1..n.
RECURSIVE SeqsUpTo(_, _)
SeqsUpTo(S, n) ==
    IF n = 0 THEN {}
    ELSE LET shorter == SeqsUpTo(S, n - 1)
         IN  {<< c >> : c \in S} \cup shorter \cup
             {Append(t, c) : t \in {u \in shorter : Len(u) = n - 1}, c \in S}

Colon == << ":" >>
HttpPrefix == << "h", "t", "t", "p", ":", "/", "/" >>
HttpsPrefix == << "h", "t", "t", "p", "s", ":", "/", "/" >>
JsonVersionPath == << "/", "j", "s", "o", "n", "/", "v", "e", "r", "s", "i", "o", "n" >>

\* ------------------------------------------------------------------ inputs

EndpointChars == {"h", ":", "9"}

\* Remote endpoints a user may pass with --remote-debugging-port: every short
\* string over EndpointChars, and those that carry a scheme, with and without
\* a port.
Endpoints ==
    SeqsUpTo(EndpointChars, MaxEndpointLen)
        \cup {HttpPrefix \o << "h", ":", "9" >>, HttpsPrefix \o << "h", ":", "9" >>}
        \cup {HttpPrefix \o << "h" >>, HttpsPrefix \o << "h" >>}

\* ------------------------------------------------------------------- state

VARIABLES
    input,        \* the command line: Config as the flags set it (main.go:16-27)
    cfg,          \* Config as runThatCliWebBrowser rewrites it (Target, Timeout)
    pc,           \* the caller's position
    deferred,     \* whether `defer browser.Cancel()` is registered (main.go:194)
    ret,          \* what runThatCliWebBrowser returned
    args,         \* the arguments of InitializeChromedp
    ipc,          \* InitializeChromedp's position
    probeResp,    \* what the liveness probe got: no answer yet, a failure, a status
    initErr,      \* the error InitializeChromedp returned
    browser,      \* the Browser it returned: TargetURL, Delay, JSCode
    mode,         \* "none" | "local" | "remote"
    layers,       \* allocator, task context, deadline context: none | live | done
    ctxErr,       \* Browser.Ctx.Err(): nil | Canceled | DeadlineExceeded
    released,     \* the layers in the order they were released
    cancelLog,    \* the layers' cancel functions in the order they were invoked
    cancelCalls,  \* how many times Browser.Cancel was invoked
    page,         \* "blank" until a navigation has loaded the target
    document,     \* the elements of the document the target serves
    listeners,    \* listeners registered with chromedp.ListenTarget
    ppc,          \* NavigateAndPrepare's position: the task it is at, and its phase
    promise,      \* the async wrapper's promise: none | pending | settled
    result,       \* what the last Browser method returned to its caller
    inflight,     \* the executor whose request the browser has not answered yet
    outputs,      \* what GetTextBySelector returned, call after call
    trace,        \* the requests sent to the browser and the network, in order
    calls,        \* how many times each method of Browser was called
    delivered,    \* the events the browser delivered to the listeners, in order
    bridgeLog,    \* the log records the listeners wrote, in order
    acceptTasks   \* dialog-accept goroutines that were started and have not run

vars == << input, cfg, pc, deferred, ret, args, ipc, probeResp, initErr, browser, mode,
           layers, ctxErr, released, cancelLog, cancelCalls, page, document, listeners,
           ppc, promise, result, inflight, outputs, trace, calls,
           delivered, bridgeLog, acceptTasks >>

mainVars == << input, cfg, pc, deferred, ret >>
initVars == << args, ipc, probeResp, initErr, browser, mode >>
ctxVars == << layers, ctxErr, released, cancelLog, cancelCalls >>
bridgeVars == << delivered, bridgeLog, acceptTasks >>
textVars == << document, outputs >>
sessionVars == << page, listeners, ppc, promise, result, inflight, calls, bridgeVars,
                 textVars >>

Layer == {"alloc", "task", "ctx"}

NoResponse == [err |-> FALSE, status |-> 0]
NoError == [kind |-> "nil", msg |-> << >>]
NoBrowser == [TargetURL |-> << >>, Delay |-> 0, JSCode |-> << >>]
NoConfig == [none |-> TRUE]

Ev(op, arg) == [op |-> op, arg |-> arg]

\* The exported methods of Browser.
Methods == {"NavigateAndPrepare", "SetupConsoleLogListeners", "CaptureConsoleLogs",
            "GetBodyText", "GetTextBySelector", "TakeScreenshot", "PrintToPDF"}

NoCalls == [m \in Methods |-> 0]

\* NavigateAndPrepare is not running.
Idle == [task |-> 0, phase |-> "idle"]

\* The layers InitializeChromedp creates: chromedp.go:71-77 for a remote
\* session, chromedp.go:91-93 for a local one.
LayersFor(m) ==
    [l \in Layer |-> IF m = "remote" \/ (m = "local" /\ l # "task") THEN "live" ELSE "none"]

\* ------------------------------------------------- session establishment

\* chromedp.go:36-39
RemoteURL(remoteDebuggingPort) ==
    IF ~HasPrefix(remoteDebuggingPort, HttpPrefix) /\ ~HasPrefix(remoteDebuggingPort, HttpsPrefix)
    THEN HttpPrefix \o remoteDebuggingPort
    ELSE remoteDebuggingPort

\* chromedp.go:53
TestURL(remoteDebuggingPort) == RemoteURL(remoteDebuggingPort) \o JsonVersionPath

\* chromedp.go:42: the first format check
HasColon(remoteDebuggingPort) == Contains(remoteDebuggingPort, Colon)

\* The check without its test for empty parts.
PartsOKCountOnly(remoteDebuggingPort) ==
    Len(Split(remoteDebuggingPort, Colon)) = 2

\* chromedp.go:47-48: the second format check, on the split parts
PartsOK(remoteDebuggingPort) ==
    LET parts == Split(remoteDebuggingPort, Colon)
    IN  ~(Len(parts) # 2 \/ parts[1] = << >> \/ parts[2] = << >>)

\* chromedp.go:43
ErrNoColon(remoteDebuggingPort) ==
    [kind |-> "format",
     msg  |-> << "invalid remote debugging port format: " >> \o remoteDebuggingPort
              \o << " (expected format: localhost:9222)" >>]

\* chromedp.go:49
ErrParts(remoteDebuggingPort) ==
    [kind |-> "format",
     msg  |-> << "invalid remote debugging port format: " >> \o remoteDebuggingPort
              \o << " (expected format: host:port)" >>]

\* chromedp.go:59
ErrConnect(remoteDebuggingPort) ==
    [kind |-> "connect",
     msg  |-> << "failed to connect to remote debugging port " >> \o remoteDebuggingPort
              \o << ": ", "<network error>", " (ensure Chrome is running with ",
                    "--remote-debugging-port=" >>
              \o Split(remoteDebuggingPort, Colon)[2] \o << ")" >>]

\* chromedp.go:66
ErrStatus(status, testURL) ==
    [kind |-> "status",
     msg  |-> << "remote debugging endpoint returned status ", ToString(status), " at " >>
              \o testURL
              \o << " (ensure Chrome is running with remote debugging enabled)" >>]

\* http.StatusOK
StatusOK == 200

\* The statuses the probed endpoint may answer with.
StatusCodes == {StatusOK, 404, 500}

\* chromedp.go:81-87 and 97-103: the Browser that is returned
NewBrowser == [TargetURL |-> args.target, Delay |-> args.delay, JSCode |-> args.jsCode]

\* chromedp.go:34, 42-50: a remote endpoint that fails a format check; the
\* function returns before it has requested anything.
InitFormatError ==
    /\ ipc = "entered"
    /\ args.remote # << >>
    /\ ~(HasColon(args.remote) /\ PartsOK(args.remote))
    /\ initErr' = IF ~HasColon(args.remote) THEN ErrNoColon(args.remote)
                  ELSE ErrParts(args.remote)
    /\ ipc' = "returned"
    /\ UNCHANGED << args, probeResp, browser, mode, trace >>
    /\ UNCHANGED << mainVars, ctxVars, sessionVars >>

\* The probe sent with the allocator already created.
InitProbeAllocatorFirst ==
    /\ ipc = "entered"
    /\ args.remote # << >>
    /\ HasColon(args.remote) /\ PartsOK(args.remote)
    /\ trace' = trace \o << Ev("NewRemoteAllocator", RemoteURL(args.remote)),
                             Ev("Probe", TestURL(args.remote)) >>
    /\ layers' = [layers EXCEPT !["alloc"] = "live"]
    /\ ipc' = "probing"
    /\ UNCHANGED << args, probeResp, initErr, browser, mode >>
    /\ UNCHANGED << ctxErr, released, cancelLog, cancelCalls >>
    /\ UNCHANGED << mainVars, sessionVars >>

\* chromedp.go:52-57: the liveness probe is sent.
InitProbe ==
    /\ ipc = "entered"
    /\ args.remote # << >>
    /\ HasColon(args.remote) /\ PartsOK(args.remote)
    /\ trace' = Append(trace, Ev("Probe", TestURL(args.remote)))
    /\ ipc' = "probing"
    /\ UNCHANGED << args, probeResp, initErr, browser, mode >>
    /\ UNCHANGED << mainVars, ctxVars, sessionVars >>

\* chromedp.go:58-60: the request failed.
ProbeNetFail ==
    /\ ipc = "probing"
    /\ probeResp' = [err |-> TRUE, status |-> 0]
    /\ initErr' = ErrConnect(args.remote)
    /\ ipc' = "returned"
    /\ UNCHANGED << args, browser, mode, trace >>
    /\ UNCHANGED << mainVars, ctxVars, sessionVars >>

\* Another status than 200 taken for success.
ProbeBadStatusAccepted ==
    /\ ipc = "probing"
    /\ \E status \in StatusCodes :
          /\ status # StatusOK
          /\ probeResp' = [err |-> FALSE, status |-> status]
    /\ trace' = Append(trace, Ev("NewRemoteAllocator", RemoteURL(args.remote)))
    /\ layers' = [l \in Layer |-> "live"]
    /\ mode' = "remote"
    /\ browser' = NewBrowser
    /\ ipc' = "returned"
    /\ UNCHANGED << args, initErr >>
    /\ UNCHANGED << ctxErr, released, cancelLog, cancelCalls >>
    /\ UNCHANGED << mainVars, sessionVars >>

\* chromedp.go:65-67: the endpoint answered with another status than 200.
ProbeBadStatus ==
    /\ ipc = "probing"
    /\ \E status \in StatusCodes :
          /\ status # StatusOK
          /\ probeResp' = [err |-> FALSE, status |-> status]
          /\ initErr' = ErrStatus(status, TestURL(args.remote))
    /\ ipc' = "returned"
    /\ UNCHANGED << args, browser, mode, trace >>
    /\ UNCHANGED << mainVars, ctxVars, sessionVars >>

\* chromedp.go:69-87: the endpoint answered 200; attach to the browser:
\* allocator, then task context, then deadline context.
ProbeOK ==
    /\ ipc = "probing"
    /\ probeResp' = [err |-> FALSE, status |-> StatusOK]
    /\ trace' = Append(trace, Ev("NewRemoteAllocator", RemoteURL(args.remote)))
    /\ layers' = LayersFor("remote")
    /\ mode' = "remote"
    /\ browser' = NewBrowser
    /\ ipc' = "returned"
    /\ UNCHANGED << args, initErr >>
    /\ UNCHANGED << ctxErr, released, cancelLog, cancelCalls >>
    /\ UNCHANGED << mainVars, sessionVars >>

\* chromedp.go:88-104: no remote endpoint; a headless browser context and its
\* deadline context.
InitLocal ==
    /\ ipc = "entered"
    /\ args.remote = << >>
    /\ layers' = LayersFor("local")
    /\ mode' = "local"
    /\ browser' = NewBrowser
    /\ ipc' = "returned"
    /\ UNCHANGED << args, probeResp, initErr, trace >>
    /\ UNCHANGED << ctxErr, released, cancelLog, cancelCalls >>
    /\ UNCHANGED << mainVars, sessionVars >>

InitializeChromedp ==
    \/ InitFormatError
    \/ InitProbe
    \/ ProbeNetFail
    \/ ProbeBadStatus
    \/ ProbeOK
    \/ InitLocal

\* ------------------------------------------------------------ cancellation

\* A context and the contexts derived from it, parent first: the deadline
\* context is derived from the task context (chromedp.go:77) or, locally, from
\* the browser context (chromedp.go:93); the task context from the allocator
\* (chromedp.go:74).
Subtree(l) ==
    CASE l = "alloc" -> << "alloc", "task", "ctx" >>
      [] l = "task"  -> << "task", "ctx" >>
      [] l = "ctx"   -> << "ctx" >>

\* A release that does not look at whether the context is still live.
ReleaseOneUnguarded(st, l) ==
    IF st.ls[l] # "none"
    THEN [ls |-> [st.ls EXCEPT ![l] = "done"], order |-> Append(st.order, l),
          err |-> IF l = "ctx" THEN "Canceled" ELSE st.err]
    ELSE st

\* One context is released if it is still live: a context.CancelFunc does
\* nothing after the first call, and nothing on a context that is already done.
ReleaseOne(st, l) ==
    IF st.ls[l] = "live"
    THEN [ls |-> [st.ls EXCEPT ![l] = "done"], order |-> Append(st.order, l),
          err |-> IF l = "ctx" /\ st.err = "nil" THEN "Canceled" ELSE st.err]
    ELSE st

RECURSIVE ReleaseAll(_, _)
ReleaseAll(st, ls) ==
    IF ls = << >> THEN st ELSE ReleaseAll(ReleaseOne(st, Head(ls)), Tail(ls))

\* Calling the cancel function of layer l: the context and its descendants.
CancelLayer(st, l) == ReleaseAll(st, Subtree(l))

\* The cancel functions called outermost first.
CancelFuncsReversed(m) ==
    IF m = "remote" THEN << "alloc", "task", "ctx" >> ELSE << "alloc", "ctx" >>

\* chromedp.go:83 and 99: the cancel functions Browser.Cancel calls, in order.
CancelFuncs(m) ==
    IF m = "remote" THEN << "ctx", "task", "alloc" >> ELSE << "ctx", "alloc" >>

RECURSIVE CancelEach(_, _)
CancelEach(st, fs) ==
    IF fs = << >> THEN st ELSE CancelEach(CancelLayer(st, Head(fs)), Tail(fs))

\* The effect of one call of Browser.Cancel on the contexts.
CancelEffect ==
    LET st == CancelEach([ls |-> layers, order |-> released, err |-> ctxErr],
                         CancelFuncs(mode))
    IN  /\ layers' = st.ls
        /\ released' = st.order
        /\ ctxErr' = st.err
        /\ cancelLog' = cancelLog \o CancelFuncs(mode)
        /\ cancelCalls' = cancelCalls + 1

\* A deadline put on a context the Browser does not hold: it elapses and
\* Browser.Ctx stays as it is.
DeadlineOnAnotherContext ==
    /\ layers["ctx"] = "live"
    /\ UNCHANGED vars

\* The session deadline elapses (context.WithTimeout, chromedp.go:77 and 93).
DeadlineFires ==
    /\ layers["ctx"] = "live"
    /\ layers' = [layers EXCEPT !["ctx"] = "done"]
    /\ ctxErr' = "DeadlineExceeded"
    /\ released' = Append(released, "ctx")
    /\ UNCHANGED << cancelLog, cancelCalls, trace >>
    /\ UNCHANGED << mainVars, initVars, sessionVars >>

\* A client of the package calls Browser.Cancel, between its other calls.
ClientCancel ==
    /\ ipc = "returned"
    /\ initErr = NoError
    /\ pc = "client"
    /\ ppc = Idle
    /\ inflight = "none"
    /\ cancelCalls < MaxCancels
    /\ CancelEffect
    /\ UNCHANGED trace
    /\ UNCHANGED << mainVars, initVars, sessionVars >>

\* ------------------------------------------------------- browser requests

\* ctx.Err() as an error value
CtxError ==
    [kind |-> "context",
     msg  |-> IF ctxErr = "DeadlineExceeded" THEN << "context deadline exceeded" >>
              ELSE << "context canceled" >>]

BrowserError(op) == [kind |-> "browser", msg |-> << op, ": ", "<browser error>" >>]

Called(method) == calls' = [calls EXCEPT ![method] = @ + 1]

\* A call that does not look at the context: the request is sent and answered
\* on a context that is done too.
BrowserCallOnDoneContext(method, op, arg, answer) ==
    /\ inflight \in {"none", method}
    /\ IF inflight = "none"
       THEN /\ Called(method)
            /\ trace' = Append(trace, Ev(op, arg))
            /\ inflight' = method
            /\ UNCHANGED result
       ELSE /\ inflight' = "none"
            /\ result' = answer
            /\ UNCHANGED << trace, calls >>

\* chromedp.Run(b.Ctx, action) with one browser action, in a method of
\* Browser. The call: on a context that is done the action returns ctx.Err()
\* and nothing is requested; otherwise the request is sent and the method
\* waits. The return: with ctx.Err() if the context is done by then, else
\* with the browser's answer: nil, or the error of the action.
BrowserCall(method, op, arg, answer) ==
    /\ inflight \in {"none", method}
    /\ IF inflight = "none"
       THEN /\ Called(method)
            /\ IF layers["ctx"] # "live"
               THEN /\ result' = CtxError
                    /\ UNCHANGED << trace, inflight >>
               ELSE /\ trace' = Append(trace, Ev(op, arg))
                    /\ inflight' = method
                    /\ UNCHANGED result
       ELSE /\ inflight' = "none"
            /\ result' = IF layers["ctx"] # "live" THEN CtxError ELSE answer
            /\ UNCHANGED << trace, calls >>

\* The browser's answer to a request that cannot throw: nil or a failure.
Answer(op, ok) == IF ok THEN NoError ELSE BrowserError(op)

BodySelector == << "b", "o", "d", "y" >>

\* ---- the page's elements and their text

Quote == "'"
DoubleQuote == "\""

\* An element: its tag, the value of its attribute t (empty: it has none) and
\* its innerText.
Element(tag, t, text) == [tag |-> tag, t |-> t, text |-> text]

\* about:blank: a body without text.
BlankDocument == << Element(BodySelector, << >>, << >>) >>

\* The document of the targets in the runs that do not look at the text.
SomeDocument == << Element(BodySelector, << >>, << "a" >>) >>

\* The elements in the page now.
Elements == IF page = "loaded" THEN document ELSE BlankDocument

\* The selectors of CSS that are told apart: a type selector, tag, and a
\* type selector with an attribute selector, tag[t='v'] or tag[t="v"].
TagNames == {BodySelector, << "h", "1" >>, << "p" >>, << "q" >>}
AttrValues == {<< "x" >>}
AttrSelector(tag, q, v) == tag \o << "[", "t", "=", q >> \o v \o << q, "]" >>

IsAttrSelector(sel) ==
    \E tag \in TagNames, q \in {Quote, DoubleQuote}, v \in AttrValues :
        sel = AttrSelector(tag, q, v)

\* document.querySelectorAll throws a SyntaxError for what is no selector.
IsSelector(sel) == sel \in TagNames \/ IsAttrSelector(sel)

\* element.matches(sel), for a selector
Matches(e, sel) ==
    \/ sel = e.tag
    \/ \E q \in {Quote, DoubleQuote} : e.t # << >> /\ sel = AttrSelector(e.tag, q, e.t)

\* The value of the JavaScript literal that chromedp.go:241 makes of the
\* selector, '<selector>', and whether the source is well formed. A single
\* quote in the selector ends the literal there, and what is left of the
\* selector, with the quote that was to close it, is no JavaScript.
RECURSIVE QuotedLiteral(_)
QuotedLiteral(sel) ==
    IF sel = << >> THEN [ok |-> TRUE, value |-> << >>]
    ELSE IF Head(sel) = Quote THEN [ok |-> FALSE, value |-> << >>]
    ELSE LET rest == QuotedLiteral(Tail(sel))
         IN  [ok |-> rest.ok, value |-> << Head(sel) >> \o rest.value]

\* String.prototype.trim: white space and line terminators at both ends
IsJSSpace(c) == c \in {" ", "\n"}

RECURSIVE JSTrimStart(_)
JSTrimStart(s) == IF s # << >> /\ IsJSSpace(Head(s)) THEN JSTrimStart(Tail(s)) ELSE s

RECURSIVE JSTrimEnd(_)
JSTrimEnd(s) ==
    IF s # << >> /\ IsJSSpace(s[Len(s)]) THEN JSTrimEnd(SubSeq(s, 1, Len(s) - 1)) ELSE s

JSTrim(s) == JSTrimEnd(JSTrimStart(s))

\* Array.from(document.querySelectorAll(sel)).map(el => el.innerText.trim())
\*     .filter(text => text.length > 0)            (chromedp.go:241-243)
RECURSIVE TrimmedTexts(_, _)
TrimmedTexts(elements, sel) ==
    IF elements = << >> THEN << >>
    ELSE LET e == Head(elements)
             text == JSTrim(e.text)
         IN  (IF Matches(e, sel) /\ Len(text) > 0 THEN << text >> ELSE << >>)
                 \o TrimmedTexts(Tail(elements), sel)

ErrException(name) == [kind |-> "exception", msg |-> << "exception \"Uncaught\": ", name >>]

\* What chromedp.Evaluate gives for the source of chromedp.go:241-243: the
\* texts, or the exception the source or the selector raises.
EvaluateTexts(selector) ==
    LET literal == QuotedLiteral(selector)
    IN  IF ~literal.ok \/ ~IsSelector(literal.value)
        THEN [texts |-> << >>, err |-> ErrException("SyntaxError")]
        ELSE [texts |-> TrimmedTexts(Elements, literal.value), err |-> NoError]

\* chromedp.go:250-256: a newline before every text but the first
RECURSIVE JoinTexts(_, _)
JoinTexts(texts, i) ==
    IF i > Len(texts) THEN << >>
    ELSE (IF i > 1 THEN << "\n" >> ELSE << >>) \o texts[i] \o JoinTexts(texts, i + 1)

\* What a call of GetTextBySelector returned: the text and the error, with
\* the selector it was given and the elements the page had.
Returned(selector, text, err) ==
    [selector |-> selector, elements |-> Elements, text |-> text, err |-> err]

\* Texts kept from one call to the next and returned with the new ones.
SelectorTextAccumulated(method, selector, ok) ==
    LET evaluated == EvaluateTexts(selector)
        answer == IF ok THEN evaluated.err ELSE BrowserError("QuerySelectorAll")
    IN  /\ BrowserCall(method, "QuerySelectorAll", selector, answer)
        /\ outputs' =
              IF inflight' # "none" THEN outputs
              ELSE IF result' # NoError
              THEN Append(outputs, Returned(selector, << >>, result'))
              ELSE Append(outputs,
                          Returned(selector,
                                   (IF outputs = << >> THEN << >>
                                    ELSE outputs[Len(outputs)].text)
                                       \o JoinTexts(evaluated.texts, 1),
                                   NoError))

\* chromedp.go:236-260, for GetTextBySelector and for GetBodyText, which
\* calls it: the texts are evaluated in the page and joined; an error of
\* chromedp.Run is returned with an empty text.
SelectorText(method, selector, ok) ==
    LET evaluated == EvaluateTexts(selector)
        answer == IF ok THEN evaluated.err ELSE BrowserError("QuerySelectorAll")
    IN  /\ BrowserCall(method, "QuerySelectorAll", selector, answer)
        /\ outputs' =
              IF inflight' # "none" THEN outputs
              ELSE IF result' # NoError
              THEN Append(outputs, Returned(selector, << >>, result'))
              ELSE Append(outputs,
                          Returned(selector, JoinTexts(evaluated.texts, 1), NoError))

\* chromedp.go:236-260
GetTextBySelector(selector, ok) == SelectorText("GetTextBySelector", selector, ok)

\* chromedp.go:230-232
GetBodyText(ok) == SelectorText("GetBodyText", BodySelector, ok)

\* A screenshot that navigates to the target itself.
TakeScreenshotNavigates(ok) ==
    /\ BrowserCall("TakeScreenshot", "Navigate", browser.TargetURL, Answer("Navigate", ok))
    /\ UNCHANGED outputs

\* chromedp.go:264-278
TakeScreenshot(ok) ==
    /\ BrowserCall("TakeScreenshot", "FullScreenshot", << >>, Answer("FullScreenshot", ok))
    /\ UNCHANGED outputs

\* chromedp.go:282-300
PrintToPDF(ok) ==
    /\ BrowserCall("PrintToPDF", "PrintToPDF", << >>, Answer("PrintToPDF", ok))
    /\ UNCHANGED outputs

\* Listeners that are registered by the first call only.
SetupConsoleLogListenersOnce ==
    /\ listeners' = 1
    /\ trace' = IF listeners = 0 THEN Append(trace, Ev("ListenTarget", << >>)) ELSE trace

\* chromedp.go:178-220: one more listener on the target; nothing is returned.
SetupConsoleLogListeners ==
    /\ listeners' = listeners + 1
    /\ trace' = Append(trace, Ev("ListenTarget", << >>))

\* chromedp.go:224-227
CaptureConsoleLogs ==
    /\ SetupConsoleLogListeners
    /\ result' = NoError
    /\ Called("CaptureConsoleLogs")

\* The requests the action executors send.
ActionOps == {"QuerySelectorAll", "FullScreenshot", "PrintToPDF"}

\* --------------------------------------------------- NavigateAndPrepare

Await == << "a", "w", "a", "i", "t" >>

\* A letter of the scripts' alphabet that can be part of a word.
IsWordChar(c) == c \in {"a", "w", "i", "t", "A", "W", "I", "T", "x"}

\* "await" looked for as a whole word only.
HasAwaitWord(jsCode) ==
    \E i \in 1..Len(jsCode) :
        /\ i + Len(Await) - 1 <= Len(jsCode)
        /\ SubSeq(jsCode, i, i + Len(Await) - 1) = Await
        /\ (i > 1 => ~IsWordChar(jsCode[i - 1]))
        /\ (i + Len(Await) <= Len(jsCode) => ~IsWordChar(jsCode[i + Len(Await)]))

\* chromedp.go:117
HasAwait(jsCode) == Contains(jsCode, Await)

\* chromedp.go:116-122: the expression that is evaluated
WrappedJS(jsCode) ==
    IF HasAwait(jsCode) THEN << "(async () => { " >> \o jsCode \o << " })();" >>
    ELSE jsCode

\* chromedp.go:133 and 144
ErrJS(err) ==
    [kind |-> "script", msg |-> << "failed to execute custom JavaScript: " >> \o err.msg]

\* chromedp.go:137
ErrJSException ==
    [kind |-> "script", msg |-> << "JavaScript exception: ", "<exception text>" >>]

\* The tasks in another order: the script before the delay.
PipelineTasksScriptFirst == << "Navigate", "Log", "Script", "Sleep" >>

\* chromedp.go:158-166: the actions NavigateAndPrepare hands to chromedp.Run,
\* which runs them in this order and stops at the first that fails.
PipelineTasks == << "Navigate", "Log", "Sleep", "Script" >>

CtxLive == layers["ctx"] = "live"

\* NavigateAndPrepare returns (chromedp.go:167-173).
Finish(err) ==
    /\ ppc' = Idle
    /\ result' = err

\* chromedp.Run goes on to the next action, or has run them all.
NextTask ==
    IF ppc.task = Len(PipelineTasks) THEN Finish(NoError)
    ELSE /\ ppc' = [task |-> ppc.task + 1, phase |-> "ready"]
         /\ UNCHANGED result

\* The action in hand has sent its request and waits for the answer.
Wait(op, arg) ==
    /\ trace' = Append(trace, Ev(op, arg))
    /\ ppc' = [ppc EXCEPT !.phase = "waiting"]
    /\ UNCHANGED result

\* chromedp.go:155-158: a client calls NavigateAndPrepare.
ClientNavigateAndPrepare ==
    /\ pc = "client"
    /\ ipc = "returned"
    /\ initErr = NoError
    /\ ppc = Idle
    /\ inflight = "none"
    /\ calls["NavigateAndPrepare"] < MaxPrepares
    /\ ppc' = [task |-> 1, phase |-> "ready"]
    /\ Called("NavigateAndPrepare")
    /\ UNCHANGED << page, listeners, promise, result, inflight, trace >>
    /\ UNCHANGED << mainVars, initVars, ctxVars, bridgeVars, textVars >>

\* The script step without the case of the empty script: it is evaluated too.
TaskStartEvaluatesEmptyScript ==
    /\ ppc.phase = "ready"
    /\ LET t == PipelineTasks[ppc.task]
           js == browser.JSCode
       IN  CASE t = "Navigate" ->
                  IF ~CtxLive THEN Finish(CtxError) /\ UNCHANGED << trace, promise >>
                  ELSE Wait("Navigate", browser.TargetURL) /\ UNCHANGED promise
             [] t = "Log" -> NextTask /\ UNCHANGED << trace, promise >>
             [] t = "Sleep" ->
                  IF ~CtxLive THEN Finish(CtxError) /\ UNCHANGED << trace, promise >>
                  ELSE Wait("Sleep", << ToString(browser.Delay) >>) /\ UNCHANGED promise
             [] t = "Script" ->
                  IF ~CtxLive
                  THEN Finish(ErrJS(CtxError)) /\ UNCHANGED << trace, promise >>
                  ELSE IF HasAwait(js)
                  THEN Wait("EvaluateAwait", WrappedJS(js)) /\ promise' = "pending"
                  ELSE Wait("Evaluate", WrappedJS(js)) /\ promise' \in {"none", "pending"}
    /\ UNCHANGED << page, listeners, inflight, calls >>
    /\ UNCHANGED << mainVars, initVars, ctxVars, bridgeVars, textVars >>

\* The next action of the pipeline starts: chromedp.Navigate (chromedp.go:159),
\* the logging action (160-163), chromedp.Sleep (164), or the action of
\* executeJSAction (165, 109-151). An action that talks to the browser or
\* sleeps returns ctx.Err() on a context that is done; the action for an empty
\* script returns nil whatever the context (chromedp.go:110-114).
TaskStart ==
    /\ ppc.phase = "ready"
    /\ LET t == PipelineTasks[ppc.task]
           js == browser.JSCode
       IN  CASE t = "Navigate" ->
                  IF ~CtxLive THEN Finish(CtxError) /\ UNCHANGED << trace, promise >>
                  ELSE Wait("Navigate", browser.TargetURL) /\ UNCHANGED promise
             [] t = "Log" -> NextTask /\ UNCHANGED << trace, promise >>
             [] t = "Sleep" ->
                  IF ~CtxLive THEN Finish(CtxError) /\ UNCHANGED << trace, promise >>
                  ELSE Wait("Sleep", << ToString(browser.Delay) >>) /\ UNCHANGED promise
             [] t = "Script" ->
                  IF js = << >>
                  THEN /\ trace' = Append(trace, Ev("ScriptNoOp", << >>))
                       /\ NextTask
                       /\ UNCHANGED promise
                  ELSE IF ~CtxLive
                  THEN Finish(ErrJS(CtxError)) /\ UNCHANGED << trace, promise >>
                  ELSE IF HasAwait(js)
                  THEN Wait("EvaluateAwait", WrappedJS(js)) /\ promise' = "pending"
                  ELSE Wait("Evaluate", WrappedJS(js)) /\ promise' \in {"none", "pending"}
    /\ UNCHANGED << page, listeners, inflight, calls >>
    /\ UNCHANGED << mainVars, initVars, ctxVars, bridgeVars, textVars >>

\* A target that cannot be loaded: a URL no server answers.
DeadURL == << "n" >>

\* chromedp.go:159: whether chromedp.Navigate can load the target
Loads(url) == url # DeadURL

\* A failing action that chromedp.Run passes over, going on to the next.
TaskFailsPassedOver(err) ==
    /\ NextTask
    /\ UNCHANGED trace

\* chromedp.go:158-170: an action of the pipeline returns an error; chromedp.Run
\* runs no later action and NavigateAndPrepare returns the error as it is.
TaskFails(err) ==
    /\ Finish(err)
    /\ UNCHANGED trace

\* The action in hand returns: with ctx.Err() if the context is done, else
\* with the browser's answer. runtime.Evaluate with awaitPromise
\* (chromedp.go:129-138) is answered when the promise has settled;
\* chromedp.Evaluate (chromedp.go:142) when the expression has been evaluated.
TaskEnd ==
    /\ ppc.phase = "waiting"
    /\ LET t == PipelineTasks[ppc.task]
           Done(op) == trace' = Append(trace, Ev(op, << >>)) /\ NextTask
           Fail(err) == TaskFails(err)
       IN  IF ~CtxLive
           THEN Fail(IF t = "Script" THEN ErrJS(CtxError) ELSE CtxError) /\ UNCHANGED page
           ELSE CASE t = "Navigate" ->
                       \/ Loads(browser.TargetURL) /\ Done("NavigateDone") /\ page' = "loaded"
                       \/ Fail(BrowserError("Navigate")) /\ UNCHANGED page
                  [] t = "Sleep" -> Done("SleepDone") /\ UNCHANGED page
                  [] t = "Script" ->
                       /\ \/ /\ HasAwait(browser.JSCode) => promise = "resolved"
                             /\ Done("EvaluateDone")
                          \/ /\ HasAwait(browser.JSCode)
                             /\ promise = "rejected"
                             /\ Fail(ErrJSException)
                          \/ Fail(ErrJS(BrowserError("QuerySelectorAll")))
                       /\ UNCHANGED page
                  [] OTHER -> FALSE
    /\ UNCHANGED << listeners, promise, inflight, calls >>
    /\ UNCHANGED << mainVars, initVars, ctxVars, bridgeVars, textVars >>

\* The page's promise resolves or is rejected.
PromiseSettles ==
    /\ promise = "pending"
    /\ promise' \in {"resolved", "rejected"}
    /\ UNCHANGED << page, listeners, ppc, result, inflight, trace, calls >>
    /\ UNCHANGED << mainVars, initVars, ctxVars, bridgeVars, textVars >>

\* Scripts: a core with or without the keyword, in other cases, cut short,
\* with text before and after it.
ScriptCores == {<< >>, Await, << "A", "w", "a", "i", "t" >>, << "A", "W", "A", "I", "T" >>,
                << "a", "w", "a", "i" >>, << "w", "a", "i", "t" >>}

Pads == SeqsUpTo({"x", " "}, MaxPad) \cup {<< >>}

Scripts == {p \o c \o q : p \in Pads, c \in ScriptCores, q \in {<< >>, << "x" >>, << " " >>}}

\* A session as InitializeChromedp returns it, with one of the scripts, for
\* a target that serves one of the documents.
SessionFor(scripts, documents) ==
    /\ input = NoConfig
    /\ cfg = NoConfig
    /\ pc = "client"
    /\ deferred = FALSE
    /\ ret = NoError
    /\ mode \in {"local", "remote"}
    /\ args \in [target : {<< "u" >>}, timeout : {12}, delay : {2},
                 remote : {IF mode = "remote" THEN << "h", ":", "9" >> ELSE << >>},
                 jsCode : scripts]
    /\ ipc = "returned"
    /\ probeResp = IF mode = "remote" THEN [err |-> FALSE, status |-> StatusOK]
                   ELSE NoResponse
    /\ initErr = NoError
    /\ browser = NewBrowser
    /\ layers = LayersFor(mode)
    /\ ctxErr = "nil"
    /\ released = << >>
    /\ cancelLog = << >>
    /\ cancelCalls = 0
    /\ page = "blank"
    /\ document \in documents
    /\ listeners = 0
    /\ ppc = Idle
    /\ promise = "none"
    /\ result = NoError
    /\ inflight = "none"
    /\ outputs = << >>
    /\ trace = IF mode = "remote"
               THEN << Ev("Probe", TestURL(args.remote)),
                       Ev("NewRemoteAllocator", RemoteURL(args.remote)) >>
               ELSE << >>
    /\ calls = NoCalls
    /\ delivered = << >>
    /\ bridgeLog = << >>
    /\ acceptTasks = 0

EstablishedSession(scripts) == SessionFor(scripts, {SomeDocument})

InitPipeline == EstablishedSession(Scripts)

NextPipeline ==
    \/ ClientNavigateAndPrepare
    \/ TaskStart
    \/ TaskEnd
    \/ PromiseSettles
    \/ DeadlineFires
    \/ ClientCancel

SpecPipeline == InitPipeline /\ [][NextPipeline]_vars

\* ------------------------------------------------ runThatCliWebBrowser

MinInt == -MaxInt - 1

\* A Go int after an arithmetic operation: two's complement wrap-around.
WrapInt(x) == ((x - MinInt) % (MaxInt - MinInt + 1)) + MinInt

\* main.go:168, 170: the margin added to the delay
TimeoutBuffer == 10

\* strings.TrimSpace on the blanks the inputs hold
RECURSIVE TrimLeft(_)
TrimLeft(s) == IF s # << >> /\ Head(s) = " " THEN TrimLeft(Tail(s)) ELSE s

RECURSIVE TrimRight(_)
TrimRight(s) ==
    IF s # << >> /\ s[Len(s)] = " " THEN TrimRight(SubSeq(s, 1, Len(s) - 1)) ELSE s

TrimSpace(s) == TrimRight(TrimLeft(s))

FilePrefix == << "f", "i", "l", "e", ":", "/", "/" >>

Errorf(kind, msg) == [kind |-> kind, msg |-> msg]

\* A return that runs the deferred Cancel only when no error is returned.
ReturnCancelOnSuccessOnly(err) ==
    /\ pc' = "done"
    /\ ret' = err
    /\ IF deferred /\ err = NoError THEN CancelEffect ELSE UNCHANGED ctxVars
    /\ UNCHANGED << input, deferred >>

\* A return of runThatCliWebBrowser: the deferred browser.Cancel() of
\* main.go:194, if it is registered, runs as the function returns.
Return(err) ==
    /\ pc' = "done"
    /\ ret' = err
    /\ IF deferred THEN CancelEffect ELSE UNCHANGED ctxVars
    /\ UNCHANGED << input, deferred >>

\* The function goes on to its next statement.
Goto(next) ==
    /\ pc' = next
    /\ UNCHANGED << input, deferred, ret, ctxVars >>

\* main.go:168-175: the timeout that is used with a delay that is not negative
AdjustedTimeout(timeout, delay) ==
    IF timeout <= WrapInt(delay + TimeoutBuffer)
    THEN WrapInt(delay + TimeoutBuffer)
    ELSE timeout

\* main.go:178
NoAction(c) ==
    /\ ~c.ConsoleLog /\ ~c.Screenshot /\ ~c.PrintToPDF /\ ~c.GetBody
    /\ c.GetTextByCssSelector = << >>

\* main.go:129-136: the target is empty
MainEmptyTarget ==
    /\ pc = "start"
    /\ TrimSpace(input.Target) = << >>
    /\ Return(Errorf("config", << "target cannot be empty" >>))
    /\ UNCHANGED << cfg, trace >>
    /\ UNCHANGED << initVars, sessionVars >>

\* main.go:140-145: the input is a file whose absolute path cannot be found
MainAbsError ==
    /\ pc = "start"
    /\ TrimSpace(input.Target) # << >>
    /\ Return(Errorf("config", << "failed to get absolute path for " >> \o input.Target))
    /\ UNCHANGED << cfg, trace >>
    /\ UNCHANGED << initVars, sessionVars >>

\* main.go:138-156: the target is a file that exists, or is taken for a URL
ResolvedTargets(in) == {FilePrefix \o in, in}

\* main.go:158-162: the delay is negative
MainNegativeDelay ==
    /\ pc = "start"
    /\ TrimSpace(input.Target) # << >>
    /\ input.Delay < 0
    /\ \E target \in ResolvedTargets(input.Target) :
          cfg' = [cfg EXCEPT !.Target = target]
    /\ Return(Errorf("config", << "delay cannot be negative: ", ToString(input.Delay) >>))
    /\ UNCHANGED trace
    /\ UNCHANGED << initVars, sessionVars >>

\* main.go:167-181: the timeout is adjusted; no action is requested
MainNoAction ==
    /\ pc = "start"
    /\ TrimSpace(input.Target) # << >>
    /\ input.Delay >= 0
    /\ NoAction(input)
    /\ \E target \in ResolvedTargets(input.Target) :
          cfg' = [cfg EXCEPT !.Target = target,
                             !.Timeout = AdjustedTimeout(input.Timeout, input.Delay)]
    /\ Return(Errorf("config", << "at least one action must be specified" >>))
    /\ UNCHANGED trace
    /\ UNCHANGED << initVars, sessionVars >>

\* InitializeChromedp called before the check that an action is requested.
MainInitializeBeforeActionCheck ==
    /\ pc = "start"
    /\ TrimSpace(input.Target) # << >>
    /\ input.Delay >= 0
    /\ \E target \in ResolvedTargets(input.Target) :
          cfg' = [cfg EXCEPT !.Target = target,
                             !.Timeout = AdjustedTimeout(input.Timeout, input.Delay)]
    /\ args' = [target |-> cfg'.Target, timeout |-> cfg'.Timeout, delay |-> cfg'.Delay,
                remote |-> cfg'.RemoteDebuggingPort, jsCode |-> << >>]
    /\ ipc' = "entered"
    /\ Goto("init")
    /\ UNCHANGED << probeResp, initErr, browser, mode, trace >>
    /\ UNCHANGED sessionVars

\* main.go:167-189: the timeout is adjusted and InitializeChromedp is called
\* with the target, the timeout, the delay and the remote endpoint. Config
\* holds no script (main.go:16-27): none is passed.
MainInitialize ==
    /\ pc = "start"
    /\ TrimSpace(input.Target) # << >>
    /\ input.Delay >= 0
    /\ ~NoAction(input)
    /\ \E target \in ResolvedTargets(input.Target) :
          cfg' = [cfg EXCEPT !.Target = target,
                             !.Timeout = AdjustedTimeout(input.Timeout, input.Delay)]
    /\ args' = [target |-> cfg'.Target, timeout |-> cfg'.Timeout, delay |-> cfg'.Delay,
                remote |-> cfg'.RemoteDebuggingPort, jsCode |-> << >>]
    /\ ipc' = "entered"
    /\ Goto("init")
    /\ UNCHANGED << probeResp, initErr, browser, mode, trace >>
    /\ UNCHANGED sessionVars

\* main.go:190-194: InitializeChromedp has returned; on an error the command
\* fails, otherwise browser.Cancel() is deferred.
MainInitialized ==
    /\ pc = "init"
    /\ ipc = "returned"
    /\ IF initErr # NoError
       THEN /\ Return(Errorf("init", << "failed to initialize browser: " >> \o initErr.msg))
       ELSE /\ pc' = "selector"
            /\ deferred' = TRUE
            /\ UNCHANGED << input, ret, ctxVars >>
    /\ UNCHANGED << cfg, trace >>
    /\ UNCHANGED << initVars, sessionVars >>

\* main.go:196-206: the text of the elements a CSS selector matches
MainSelector ==
    /\ pc = "selector"
    /\ IF cfg.GetTextByCssSelector = << >>
       THEN /\ Goto("body")
            /\ UNCHANGED << result, inflight, outputs, trace, calls >>
       ELSE /\ \E ok \in BOOLEAN : GetTextBySelector(cfg.GetTextByCssSelector, ok)
            /\ IF inflight' # "none" THEN Goto("selector")
               ELSE IF result' # NoError
               THEN Return(Errorf("action", << "failed to get text by selector: " >> \o result'.msg))
               ELSE Goto("body")
    /\ UNCHANGED << cfg, page, listeners, ppc, promise >>
    /\ UNCHANGED << initVars, bridgeVars, document >>

\* The body step that logs the error of GetBodyText and goes on.
MainBodyErrorLogged ==
    /\ pc = "body"
    /\ IF ~cfg.GetBody
       THEN /\ Goto("console")
            /\ UNCHANGED << result, inflight, outputs, trace, calls >>
       ELSE /\ \E ok \in BOOLEAN : GetBodyText(ok)
            /\ IF inflight' # "none" THEN Goto("body")
               ELSE Goto("console")
    /\ UNCHANGED << cfg, page, listeners, ppc, promise >>
    /\ UNCHANGED << initVars, bridgeVars, document >>

\* main.go:208-218: the text of the body
MainBody ==
    /\ pc = "body"
    /\ IF ~cfg.GetBody
       THEN /\ Goto("console")
            /\ UNCHANGED << result, inflight, outputs, trace, calls >>
       ELSE /\ \E ok \in BOOLEAN : GetBodyText(ok)
            /\ IF inflight' # "none" THEN Goto("body")
               ELSE IF result' # NoError
               THEN Return(Errorf("action", << "failed to get body text: " >> \o result'.msg))
               ELSE Goto("console")
    /\ UNCHANGED << cfg, page, listeners, ppc, promise >>
    /\ UNCHANGED << initVars, bridgeVars, document >>

\* main.go:220-227: the console listeners
MainConsole ==
    /\ pc = "console"
    /\ IF ~cfg.ConsoleLog
       THEN /\ Goto("screenshot")
            /\ UNCHANGED << result, trace, listeners, calls >>
       ELSE /\ CaptureConsoleLogs
            /\ IF result' # NoError
               THEN Return(Errorf("action", << "failed to capture console logs: " >> \o result'.msg))
               ELSE Goto("screenshot")
    /\ UNCHANGED << cfg, page, ppc, promise, inflight >>
    /\ UNCHANGED << initVars, bridgeVars, textVars >>

\* The screenshot step with its error dropped: the command goes on.
MainScreenshotErrorDropped ==
    /\ pc = "screenshot"
    /\ IF ~cfg.Screenshot
       THEN /\ Goto("pdf")
            /\ UNCHANGED << result, inflight, outputs, trace, calls >>
       ELSE /\ \E ok \in BOOLEAN : TakeScreenshot(ok)
            /\ IF inflight' # "none" THEN Goto("screenshot")
               ELSE Goto("saveScreenshot")
    /\ UNCHANGED << cfg, page, listeners, ppc, promise >>
    /\ UNCHANGED << initVars, bridgeVars, document >>

\* main.go:229-237: the screenshot is taken
MainScreenshot ==
    /\ pc = "screenshot"
    /\ IF ~cfg.Screenshot
       THEN /\ Goto("pdf")
            /\ UNCHANGED << result, inflight, outputs, trace, calls >>
       ELSE /\ \E ok \in BOOLEAN : TakeScreenshot(ok)
            /\ IF inflight' # "none" THEN Goto("screenshot")
               ELSE IF result' # NoError
               THEN Return(Errorf("action", << "failed to take screenshot: " >> \o result'.msg))
               ELSE Goto("saveScreenshot")
    /\ UNCHANGED << cfg, page, listeners, ppc, promise >>
    /\ UNCHANGED << initVars, bridgeVars, document >>

\* main.go:238-246: the screenshot is written to its file
MainSaveScreenshot ==
    /\ pc = "saveScreenshot"
    /\ \E written \in BOOLEAN :
          IF written THEN Goto("pdf")
          ELSE Return(Errorf("write", << "failed to save screenshot " >>))
    /\ UNCHANGED << cfg, trace >>
    /\ UNCHANGED << initVars, sessionVars >>

\* The PDF step that does not wait for PrintToPDF to return: the command
\* goes on while the call is in progress.
MainPDFNotAwaited ==
    /\ pc = "pdf"
    /\ IF ~cfg.PrintToPDF
       THEN /\ Return(NoError)
            /\ UNCHANGED << result, inflight, outputs, trace, calls >>
       ELSE /\ \E ok \in BOOLEAN : PrintToPDF(ok)
            /\ IF result' # NoError
               THEN Return(Errorf("action", << "failed to print to PDF: " >> \o result'.msg))
               ELSE Goto("savePDF")
    /\ UNCHANGED << cfg, page, listeners, ppc, promise >>
    /\ UNCHANGED << initVars, bridgeVars, document >>

\* main.go:248-255: the PDF is printed
MainPDF ==
    /\ pc = "pdf"
    /\ IF ~cfg.PrintToPDF
       THEN /\ Return(NoError)
            /\ UNCHANGED << result, inflight, outputs, trace, calls >>
       ELSE /\ \E ok \in BOOLEAN : PrintToPDF(ok)
            /\ IF inflight' # "none" THEN Goto("pdf")
               ELSE IF result' # NoError
               THEN Return(Errorf("action", << "failed to print to PDF: " >> \o result'.msg))
               ELSE Goto("savePDF")
    /\ UNCHANGED << cfg, page, listeners, ppc, promise >>
    /\ UNCHANGED << initVars, bridgeVars, document >>

\* main.go:257-268: the PDF is written to its file and the command returns
MainSavePDF ==
    /\ pc = "savePDF"
    /\ \E written \in BOOLEAN :
          IF written THEN Return(NoError)
          ELSE Return(Errorf("write", << "failed to save PDF " >>))
    /\ UNCHANGED << cfg, trace >>
    /\ UNCHANGED << initVars, sessionVars >>

\* Values of --delay and --timeout: the defaults, the README's example, a
\* negative delay, and delays next to the largest int.
SomeDelays == {-1, 0, 2, 15, MaxInt}
SomeTimeouts == {-1, 10, 12, 13}

Selectors == {<< >>, << "h", "1" >>}
Targets == {<< >>, << " " >>, << "u" >>, DeadURL}
SomeEndpoints == {<< >>, << "h", ":", "9" >>, << "h" >>}

Configs(delays, timeouts, flags) ==
    [ConsoleLog : flags, Screenshot : flags, PrintToPDF : flags, GetBody : flags,
     GetTextByCssSelector : Selectors, Timeout : timeouts, Delay : delays,
     Target : Targets, RemoteDebuggingPort : SomeEndpoints]

InitWith(configs) ==
    /\ input \in configs
    /\ cfg = input
    /\ pc = "start"
    /\ deferred = FALSE
    /\ ret = NoError
    /\ args = [target |-> << >>, timeout |-> 0, delay |-> 0, remote |-> << >>,
               jsCode |-> << >>]
    /\ ipc = "notcalled"
    /\ probeResp = NoResponse
    /\ initErr = NoError
    /\ browser = NoBrowser
    /\ mode = "none"
    /\ layers = [l \in Layer |-> "none"]
    /\ ctxErr = "nil"
    /\ released = << >>
    /\ cancelLog = << >>
    /\ cancelCalls = 0
    /\ page = "blank"
    /\ document = SomeDocument
    /\ listeners = 0
    /\ ppc = Idle
    /\ promise = "none"
    /\ result = NoError
    /\ inflight = "none"
    /\ outputs = << >>
    /\ trace = << >>
    /\ calls = NoCalls
    /\ delivered = << >>
    /\ bridgeLog = << >>
    /\ acceptTasks = 0

Init == InitWith(Configs(SomeDelays, SomeTimeouts, BOOLEAN))

Next ==
    \/ MainEmptyTarget
    \/ MainAbsError
    \/ MainNegativeDelay
    \/ MainNoAction
    \/ MainInitialize
    \/ InitFormatError
    \/ InitProbe
    \/ ProbeNetFail
    \/ ProbeBadStatus
    \/ ProbeOK
    \/ InitLocal
    \/ MainInitialized
    \/ MainSelector
    \/ MainBody
    \/ MainConsole
    \/ MainScreenshot
    \/ MainSaveScreenshot
    \/ MainPDF
    \/ MainSavePDF
    \/ DeadlineFires

Spec == Init /\ [][Next]_vars

\* ------------------------------------- InitializeChromedp called directly

InitEstablish ==
    /\ input = NoConfig
    /\ cfg = NoConfig
    /\ pc = "client"
    /\ deferred = FALSE
    /\ ret = NoError
    /\ args \in [target : {<< "u" >>}, timeout : {10}, delay : {2},
                 remote : Endpoints \cup {<< >>}, jsCode : {<< >>}]
    /\ ipc = "entered"
    /\ probeResp = NoResponse
    /\ initErr = NoError
    /\ browser = NoBrowser
    /\ mode = "none"
    /\ layers = [l \in Layer |-> "none"]
    /\ ctxErr = "nil"
    /\ released = << >>
    /\ cancelLog = << >>
    /\ cancelCalls = 0
    /\ page = "blank"
    /\ document = SomeDocument
    /\ listeners = 0
    /\ ppc = Idle
    /\ promise = "none"
    /\ result = NoError
    /\ inflight = "none"
    /\ outputs = << >>
    /\ trace = << >>
    /\ calls = NoCalls
    /\ delivered = << >>
    /\ bridgeLog = << >>
    /\ acceptTasks = 0

NextEstablish ==
    \/ InitFormatError
    \/ InitProbe
    \/ ProbeNetFail
    \/ ProbeBadStatus
    \/ ProbeOK
    \/ InitLocal
    \/ DeadlineFires
    \/ ClientCancel

SpecEstablish == InitEstablish /\ [][NextEstablish]_vars

\* ----------------------------------------- the timeout and the delay

\* Every int for --delay and --timeout, with and without an action.
TimingConfigs ==
    [ConsoleLog : {FALSE}, Screenshot : BOOLEAN, PrintToPDF : {FALSE}, GetBody : {FALSE},
     GetTextByCssSelector : {<< >>}, Timeout : MinInt..MaxInt, Delay : MinInt..MaxInt,
     Target : {<< >>, << "u" >>}, RemoteDebuggingPort : {<< >>}]

InitTimeout == InitWith(TimingConfigs)

NextTimeout ==
    \/ MainEmptyTarget
    \/ MainAbsError
    \/ MainNegativeDelay
    \/ MainNoAction
    \/ MainInitialize

SpecTimeout == InitTimeout /\ [][NextTimeout]_vars

\* -------------------------------------------------------- the listeners

\* A record written with slog by a listener.
Logged(level, msg) == [level |-> level, msg |-> msg]

\* An event of the page, with the JSON of its arguments if it is a call of
\* the console.
Event(kind, eventArgs) == [kind |-> kind, args |-> eventArgs]

RECURSIVE Repeat(_, _)
Repeat(records, k) == IF k = 0 THEN << >> ELSE records \o Repeat(records, k - 1)

\* The browser delivers an event of the page: every listener registered with
\* chromedp.ListenTarget (chromedp.go:181) is called with it, while the
\* context is not done. A listener writes its records and, for a dialog,
\* starts a goroutine; it calls nothing that waits and returns nothing.
Delivers(event, records, started) ==
    /\ ipc = "returned"
    /\ initErr = NoError
    /\ listeners > 0
    /\ CtxLive
    /\ Len(delivered) < MaxEvents
    /\ delivered' = Append(delivered, event)
    /\ bridgeLog' = bridgeLog \o Repeat(records, listeners)
    /\ acceptTasks' = acceptTasks + started
    /\ UNCHANGED << page, listeners, ppc, promise, result, inflight, calls >>
    /\ UNCHANGED << mainVars, initVars, ctxVars, textVars >>

\* strings.Trim(val, "\""): every double quote at either end is taken off.
RECURSIVE ConsoleValueTrimmed(_)
ConsoleValueTrimmed(val) ==
    IF val # << >> /\ Head(val) = DoubleQuote THEN ConsoleValueTrimmed(Tail(val))
    ELSE IF val # << >> /\ val[Len(val)] = DoubleQuote
    THEN ConsoleValueTrimmed(SubSeq(val, 1, Len(val) - 1))
    ELSE val

\* chromedp.go:188-191: the JSON of an argument, without its quotes if it is
\* a string
ConsoleValue(val) ==
    IF Len(val) >= 2 /\ val[1] = DoubleQuote /\ val[Len(val)] = DoubleQuote
    THEN SubSeq(val, 2, Len(val) - 1)
    ELSE val

\* chromedp.go:185-192: values, after the loop over ev.Args has taken the
\* first n of them
RECURSIVE ConsoleValues(_, _)
ConsoleValues(eventArgs, n) ==
    IF n = 0 THEN << >>
    ELSE Append(ConsoleValues(eventArgs, n - 1), ConsoleValue(eventArgs[n]))

\* strings.Join(elems, sep)
RECURSIVE Join(_, _)
Join(elems, sep) ==
    IF elems = << >> THEN << >>
    ELSE IF Len(elems) = 1 THEN elems[1]
    ELSE elems[1] \o sep \o Join(Tail(elems), sep)

\* chromedp.go:193-195: the record of a call of the console
ConsoleCaptured(eventArgs) ==
    [level |-> "INFO", msg |-> "Console message captured",
     value |-> Join(ConsoleValues(eventArgs, Len(eventArgs)), << " " >>)]

\* console.log("a")
SomeConsoleArgs == {<< << DoubleQuote, "a", DoubleQuote >> >>}

\* chromedp.go:183-196: runtime.EventConsoleAPICalled
ConsoleEvent ==
    /\ \E eventArgs \in SomeConsoleArgs :
          Delivers(Event("console", eventArgs), << ConsoleCaptured(eventArgs) >>, 0)
    /\ UNCHANGED trace

\* chromedp.go:197-208: runtime.EventExceptionThrown, with the frames of its
\* stack trace if it has one
ExceptionEvent ==
    /\ \E frames \in 0..MaxFrames :
          Delivers(Event("exception", << >>),
                   << Logged("ERROR", "JavaScript exception captured") >>
                       \o Repeat(<< Logged("DEBUG", "Stack trace frame") >>, frames),
                   0)
    /\ UNCHANGED trace

DialogDetected == Logged("DEBUG", "JavaScript dialog detected, handling automatically")

\* A listener that accepts the dialog itself, before it returns.
DialogEventAcceptsInline ==
    /\ Delivers(Event("dialog", << >>), << DialogDetected >>, 0)
    /\ trace' = trace \o Repeat(<< Ev("HandleJavaScriptDialog", << >>) >>, listeners)

\* chromedp.go:209-215: page.EventJavascriptDialogOpening; each listener
\* starts one goroutine (chromedp.go:211) and returns.
DialogEvent ==
    /\ Delivers(Event("dialog", << >>), << DialogDetected >>, listeners)
    /\ UNCHANGED trace

AcceptFailed == Logged("ERROR", "Failed to handle JavaScript dialog")

\* A dialog-accept goroutine whose failure is handed to the main flow.
DialogAcceptFailureRaised ==
    /\ acceptTasks > 0
    /\ acceptTasks' = acceptTasks - 1
    /\ IF ~CtxLive
       THEN /\ bridgeLog' = Append(bridgeLog, AcceptFailed)
            /\ result' = CtxError
            /\ UNCHANGED trace
       ELSE /\ trace' = Append(trace, Ev("HandleJavaScriptDialog", << >>))
            /\ \E ok \in BOOLEAN :
                  IF ok THEN UNCHANGED << bridgeLog, result >>
                  ELSE /\ bridgeLog' = Append(bridgeLog, AcceptFailed)
                       /\ result' = BrowserError("HandleJavaScriptDialog")
    /\ UNCHANGED << page, listeners, ppc, promise, inflight, calls, delivered >>
    /\ UNCHANGED << mainVars, initVars, ctxVars, textVars >>

\* chromedp.go:211-215: a dialog-accept goroutine runs
\* chromedp.Run(b.Ctx, page.HandleJavaScriptDialog(true)); an error, of the
\* context or of the browser, is logged and goes nowhere else.
DialogAccept ==
    /\ acceptTasks > 0
    /\ acceptTasks' = acceptTasks - 1
    /\ IF ~CtxLive
       THEN /\ bridgeLog' = Append(bridgeLog, AcceptFailed)
            /\ UNCHANGED trace
       ELSE /\ trace' = Append(trace, Ev("HandleJavaScriptDialog", << >>))
            /\ \E ok \in BOOLEAN :
                  bridgeLog' = IF ok THEN bridgeLog ELSE Append(bridgeLog, AcceptFailed)
    /\ UNCHANGED << page, listeners, ppc, promise, result, inflight, calls, delivered >>
    /\ UNCHANGED << mainVars, initVars, ctxVars, textVars >>

\* ----------------------------------------------- a client of the package

\* A client calls a method of Browser, or gets the answer of the one it
\* called: one call at a time.
ClientCall(method) ==
    /\ pc = "client"
    /\ ipc = "returned"
    /\ initErr = NoError
    /\ ppc = Idle
    /\ inflight \in {"none", method}

ExecutorCallsMade ==
    calls["GetTextBySelector"] + calls["GetBodyText"] + calls["TakeScreenshot"]
        + calls["PrintToPDF"]

ClientExecutor(method) ==
    /\ ClientCall(method)
    /\ inflight = "none" => ExecutorCallsMade < MaxExecutorCalls
    /\ UNCHANGED << page, listeners, ppc, promise >>
    /\ UNCHANGED << mainVars, initVars, ctxVars, bridgeVars, document >>

ClientGetTextBySelector ==
    /\ ClientExecutor("GetTextBySelector")
    /\ \E ok \in BOOLEAN : GetTextBySelector(<< "h", "1" >>, ok)

ClientGetBodyText ==
    /\ ClientExecutor("GetBodyText")
    /\ \E ok \in BOOLEAN : GetBodyText(ok)

ClientTakeScreenshot ==
    /\ ClientExecutor("TakeScreenshot")
    /\ \E ok \in BOOLEAN : TakeScreenshot(ok)

ClientPrintToPDF ==
    /\ ClientExecutor("PrintToPDF")
    /\ \E ok \in BOOLEAN : PrintToPDF(ok)

ClientCaptureConsoleLogs ==
    /\ ClientCall("CaptureConsoleLogs")
    /\ inflight = "none"
    /\ listeners < MaxListeners
    /\ CaptureConsoleLogs
    /\ UNCHANGED << page, ppc, promise, inflight >>
    /\ UNCHANGED << mainVars, initVars, ctxVars, bridgeVars, textVars >>

\* A client that calls NavigateAndPrepare, the action executors and Cancel
\* on a session, with or without a script, in any order.
SessionScripts == {<< >>, Await}

InitClient == EstablishedSession(SessionScripts)

NextClient ==
    \/ ClientNavigateAndPrepare
    \/ TaskStart
    \/ TaskEnd
    \/ PromiseSettles
    \/ ClientGetTextBySelector
    \/ ClientGetBodyText
    \/ ClientTakeScreenshot
    \/ ClientPrintToPDF
    \/ ClientCancel
    \/ DeadlineFires

SpecClient == InitClient /\ [][NextClient]_vars

\* ------------------------------------------- the listeners at work

\* The command with console capture requested, and a client that attaches
\* the listeners and runs the pipeline, while the page raises events.
BridgeConfigs ==
    [ConsoleLog : {TRUE}, Screenshot : BOOLEAN, PrintToPDF : BOOLEAN, GetBody : BOOLEAN,
     GetTextByCssSelector : {<< >>}, Timeout : {10}, Delay : {2},
     Target : {<< "u" >>}, RemoteDebuggingPort : {<< >>}]

InitBridge ==
    \/ EstablishedSession({Await}) /\ mode = "local"
    \/ InitWith(BridgeConfigs)

\* The client the doc comments ask for: the listeners are attached, once,
\* before NavigateAndPrepare (chromedp.go:177), which is called once
\* (chromedp.go:154).
ClientAttachesOnce ==
    /\ listeners = 0
    /\ ClientCaptureConsoleLogs

ClientPreparesOnce ==
    /\ listeners > 0
    /\ calls["NavigateAndPrepare"] = 0
    /\ ClientNavigateAndPrepare

NextBridge ==
    \/ ClientAttachesOnce
    \/ ClientPreparesOnce
    \/ TaskStart
    \/ TaskEnd
    \/ PromiseSettles
    \/ MainInitialize
    \/ InitLocal
    \/ MainInitialized
    \/ MainSelector
    \/ MainBody
    \/ MainConsole
    \/ MainScreenshot
    \/ MainSaveScreenshot
    \/ MainPDF
    \/ MainSavePDF
    \/ DeadlineFires
    \/ ConsoleEvent
    \/ ExceptionEvent
    \/ DialogEvent
    \/ DialogAccept

SpecBridge == InitBridge /\ [][NextBridge]_vars

\* ------------------------------------------- listeners attached k times

\* A client attaches the listeners to a local session, once or more, while
\* the page raises events, until the deadline.
InitListeners == EstablishedSession({<< >>}) /\ mode = "local"

NextListeners ==
    \/ ClientCaptureConsoleLogs
    \/ ConsoleEvent
    \/ ExceptionEvent
    \/ DialogEvent
    \/ DialogAccept
    \/ DeadlineFires

SpecListeners == InitListeners /\ [][NextListeners]_vars

\* ------------------------------------------------ calls of the console

\* The JSON of an argument: with quotes at both ends, at one, at none.
JSONValues == SeqsUpTo({DoubleQuote, "a"}, MaxValueLen) \cup {<< >>}

ConsoleArgLists == SeqsUpTo(JSONValues, MaxArgs) \cup {<< >>}

\* The first call of the console in the page, with any arguments.
ConsoleCalled ==
    /\ delivered = << >>
    /\ \E eventArgs \in ConsoleArgLists :
          Delivers(Event("console", eventArgs), << ConsoleCaptured(eventArgs) >>, 0)
    /\ UNCHANGED trace

\* A client attaches the listeners to a local session, and the page calls
\* the console.
InitConsole == EstablishedSession({<< >>}) /\ mode = "local"

NextConsole ==
    \/ ClientCaptureConsoleLogs
    \/ ConsoleCalled
    \/ ConsoleEvent

SpecConsole == InitConsole /\ [][NextConsole]_vars

\* ---------------------------------------------------- the text of a page

\* The texts of the elements: none, white space only, a word, a word in
\* white space.
Texts == {<< >>, << " ", "\n" >>, << "a" >>, << "\n", "b", " " >>}

PageElements == {Element(tag, t, text) : tag \in {<< "p" >>, << "q" >>},
                                         t \in {<< >>, << "x" >>}, text \in Texts}

Documents == SeqsUpTo(PageElements, MaxElements) \cup {<< >>}

\* Selectors a client asks for: by tag, and by tag and attribute, the value
\* in single or in double quotes.
TextSelectors == {<< "p" >>, << "q" >>,
                  AttrSelector(<< "p" >>, Quote, << "x" >>),
                  AttrSelector(<< "p" >>, DoubleQuote, << "x" >>)}

\* A client calls GetTextBySelector, or gets its answer.
ClientSelectorText ==
    /\ ClientCall("GetTextBySelector")
    /\ inflight = "none" => calls["GetTextBySelector"] < MaxTextCalls
    /\ \E selector \in TextSelectors, ok \in BOOLEAN :
          /\ inflight # "none" => selector = trace[Len(trace)].arg
          /\ GetTextBySelector(selector, ok)
    /\ UNCHANGED << page, listeners, ppc, promise >>
    /\ UNCHANGED << mainVars, initVars, ctxVars, bridgeVars, document >>

\* The client calls NavigateAndPrepare once.
ClientNavigatesOnce ==
    /\ calls["NavigateAndPrepare"] = 0
    /\ ClientNavigateAndPrepare

\* The page changes under its own scripts, between two calls of the client:
\* its first element is removed.
PageChanges ==
    /\ page = "loaded"
    /\ ppc = Idle
    /\ inflight = "none"
    /\ document # << >>
    /\ document' = Tail(document)
    /\ UNCHANGED << page, listeners, ppc, promise, result, inflight, calls, bridgeVars,
                    outputs, trace >>
    /\ UNCHANGED << mainVars, initVars, ctxVars >>

\* A client that navigates and asks for the text of selectors, on a local
\* session without a script.
InitText == SessionFor({<< >>}, Documents) /\ mode = "local"

NextText ==
    \/ ClientNavigatesOnce
    \/ TaskStart
    \/ TaskEnd
    \/ ClientSelectorText
    \/ PageChanges

SpecText == InitText /\ [][NextText]_vars

\* ------------------------------------------------ the deadline at work

\* A client that runs the pipeline and the executors on a local session, and
\* the command, until the deadline and after it.
InitDeadline ==
    \/ EstablishedSession(SessionScripts) /\ mode = "local"
    \/ InitWith(BridgeConfigs)

NextDeadline ==
    \/ ClientNavigateAndPrepare
    \/ TaskStart
    \/ TaskEnd
    \/ PromiseSettles
    \/ ClientGetTextBySelector
    \/ ClientGetBodyText
    \/ ClientTakeScreenshot
    \/ ClientPrintToPDF
    \/ MainInitialize
    \/ InitLocal
    \/ MainInitialized
    \/ MainSelector
    \/ MainBody
    \/ MainConsole
    \/ MainScreenshot
    \/ MainSaveScreenshot
    \/ MainPDF
    \/ MainSavePDF
    \/ DeadlineFires

\* A call of chromedp.Run is about to be made, or the context it waits on is
\* done: the step is the program's own and is taken. The answer of the
\* browser on a live context is not: the browser may never give it.
Due == inflight = "none" \/ ~CtxLive

\* What is sure to happen: the timer of context.WithTimeout runs out; the
\* program takes its own steps; a call that waits returns once the context is
\* done. Nothing is assumed of the browser, of the page's promise, or of a
\* client's next call.
FairDeadline ==
    /\ WF_vars(DeadlineFires)
    /\ WF_vars(TaskStart)
    /\ WF_vars(TaskEnd /\ ~CtxLive)
    /\ WF_vars(ClientGetTextBySelector /\ inflight # "none" /\ ~CtxLive)
    /\ WF_vars(ClientGetBodyText /\ inflight # "none" /\ ~CtxLive)
    /\ WF_vars(ClientTakeScreenshot /\ inflight # "none" /\ ~CtxLive)
    /\ WF_vars(ClientPrintToPDF /\ inflight # "none" /\ ~CtxLive)
    /\ WF_vars(MainInitialize)
    /\ WF_vars(InitLocal)
    /\ WF_vars(MainInitialized)
    /\ WF_vars(MainSelector /\ Due)
    /\ WF_vars(MainBody /\ Due)
    /\ WF_vars(MainConsole)
    /\ WF_vars(MainScreenshot /\ Due)
    /\ WF_vars(MainSaveScreenshot)
    /\ WF_vars(MainPDF /\ Due)
    /\ WF_vars(MainSavePDF)

SpecDeadline == InitDeadline /\ [][NextDeadline]_vars /\ FairDeadline

\* ---------------------------------------------- claims on establishment

\* The layers a session of mode m holds.
LayersOf(m) == IF m = "remote" THEN {"alloc", "task", "ctx"}
               ELSE IF m = "local" THEN {"alloc", "ctx"} ELSE {}

HasEvent(op) == \E i \in DOMAIN trace : trace[i].op = op

\* The position of the first event op in the trace; 0 when there is none.
FirstEvent(op) ==
    IF HasEvent(op) THEN CHOOSE i \in DOMAIN trace :
                            trace[i].op = op /\ \A j \in 1..(i - 1) : trace[j].op # op
    ELSE 0

\* C4: when InitializeChromedp has returned an error (format, connection or
\* status), no allocator, task context or deadline context is live.
C4_NoLiveLayerAfterInitError ==
    (ipc = "returned" /\ initErr # NoError) => \A l \in Layer : layers[l] # "live"

C4_Witness == ipc = "returned" /\ initErr.kind = "status" /\ HasEvent("Probe")

\* C5: one call of Cancel invokes the cancel functions, and releases the
\* layers, in the order deadline context, task context, allocator on a remote
\* session and deadline context, browser context on a local one; none is left out.
C5_CancelOrder ==
    cancelCalls = 1 =>
        /\ mode = "remote" => /\ cancelLog = << "ctx", "task", "alloc" >>
                              /\ released = << "ctx", "task", "alloc" >>
        /\ mode = "local" => /\ cancelLog = << "ctx", "alloc" >>
                             /\ released = << "ctx", "alloc" >>
        /\ \A l \in LayersOf(mode) : layers[l] = "done"

C5_Witness == cancelCalls = 1 /\ mode = "remote" /\ ctxErr = "Canceled"

\* C6: after one or more calls of Cancel, before or after the deadline has
\* fired, every layer of the session is released and was released exactly once.
C6_CancelIdempotent ==
    cancelCalls >= 1 =>
        /\ \A l \in LayersOf(mode) : layers[l] = "done"
        /\ \A l \in LayersOf(mode) :
              Cardinality({i \in DOMAIN released : released[i] = l}) = 1
        /\ Len(released) = Cardinality(LayersOf(mode))
        /\ ctxErr \in {"Canceled", "DeadlineExceeded"}

C6_Witness == cancelCalls = 2 /\ ctxErr = "DeadlineExceeded"

\* A string with exactly one ':' and text on both sides of it.
OneColonBothSides(s) ==
    /\ Cardinality({i \in DOMAIN s : s[i] = ":"}) = 1
    /\ s[1] # ":"
    /\ s[Len(s)] # ":"

\* C8: once a remote endpoint has been validated, the probe has been sent if
\* and only if the endpoint has exactly one ':' with text on both sides;
\* otherwise a format error naming the endpoint is returned and nothing was
\* requested.
C8_EndpointValidation ==
    (args.remote # << >> /\ ipc # "entered") =>
        /\ HasEvent("Probe") <=> OneColonBothSides(args.remote)
        /\ ~OneColonBothSides(args.remote) =>
              /\ ipc = "returned"
              /\ initErr.kind = "format"
              /\ Contains(initErr.msg, args.remote)
              /\ trace = << >>

C8_Witness ==
    /\ ipc = "returned"
    /\ initErr.kind = "format"
    /\ args.remote = << ":", "9" >>

\* C9: after the probe of a well-formed endpoint, a failed request gives a
\* connection error naming the endpoint and the --remote-debugging-port flag,
\* another status than 200 gives a status error, and the allocator is created
\* only after the probe was sent and answered 200.
C9_ProbeOutcome ==
    ipc = "returned" =>
        /\ probeResp.err =>
              /\ initErr.kind = "connect"
              /\ Contains(initErr.msg, args.remote)
              /\ Contains(initErr.msg, << "--remote-debugging-port=" >>)
        /\ (HasEvent("Probe") /\ ~probeResp.err /\ probeResp.status # StatusOK) =>
              initErr.kind = "status"
        /\ HasEvent("NewRemoteAllocator") =>
              /\ HasEvent("Probe")
              /\ FirstEvent("Probe") < FirstEvent("NewRemoteAllocator")
              /\ probeResp = [err |-> FALSE, status |-> StatusOK]

C9_Witness ==
    /\ ipc = "returned"
    /\ initErr.kind = "connect"
    /\ args.remote = << "h", ":", "9" >>

\* ------------------------------------------------ claims on the command

HasEventBefore(ops, i) == \E j \in 1..(i - 1) : trace[j].op \in ops

\* Within NavigateAndPrepare: the delay starts after the navigation has
\* completed, and the script step starts after the delay has completed.
PipelineStepsInOrder ==
    \A i \in DOMAIN trace :
        /\ trace[i].op = "Sleep" => HasEventBefore({"NavigateDone"}, i)
        /\ trace[i].op \in {"Evaluate", "EvaluateAwait", "ScriptNoOp"} =>
              HasEventBefore({"SleepDone"}, i)

\* C1: in NavigateAndPrepare the navigation completes before the delay
\* starts and the delay before the script step; and no request of an action
\* executor is sent before the script step (or its no-op) has completed.
C1_PipelineBeforeActions ==
    /\ PipelineStepsInOrder
    /\ \A i \in DOMAIN trace :
          trace[i].op \in ActionOps => HasEventBefore({"EvaluateDone", "ScriptNoOp"}, i)

ExecutorCalls ==
    calls["GetTextBySelector"] + calls["GetBodyText"] + calls["TakeScreenshot"]
        + calls["PrintToPDF"]

\* C2: when the command calls an action executor, it has run NavigateAndPrepare
\* exactly once on the session, to its end, and the page is navigated; a
\* command that established a session and succeeded has run it exactly once.
C2_PipelineOnceBeforeExecutors ==
    /\ ExecutorCalls > 0 =>
          /\ calls["NavigateAndPrepare"] = 1
          /\ ppc = Idle
          /\ page = "loaded"
    /\ (pc = "done" /\ ret = NoError) => calls["NavigateAndPrepare"] = 1

Established == ipc = "returned" /\ initErr = NoError

\* C3: once a session is established, Cancel has been called exactly once
\* when the command has returned, whatever it returns, and not before; every
\* layer is then released.
C3_CancelOnceOnEveryExit ==
    Established =>
        /\ cancelCalls = IF pc = "done" THEN 1 ELSE 0
        /\ pc = "done" => \A l \in LayersOf(mode) : layers[l] = "done"

C3_Witness ==
    /\ Established
    /\ pc = "done"
    /\ ret.kind = "write"
    /\ cancelCalls = 1

\* C7: for a delay that is not negative, the timeout InitializeChromedp is
\* given is delay + 10 when the configured timeout is at most delay + 10,
\* and the configured timeout otherwise.
C7_EffectiveTimeout ==
    (pc = "init" /\ input.Delay >= 0) =>
        args.timeout = IF input.Timeout <= input.Delay + 10
                       THEN input.Delay + 10
                       ELSE input.Timeout

\* C11: when console capture is requested, no navigation and no request of
\* an action executor is sent to the session before the listeners are
\* attached.
C11_ListenersBeforePipelineAndActions ==
    input.ConsoleLog =>
        \A i \in DOMAIN trace :
            trace[i].op \in ActionOps \cup {"Navigate"} =>
                HasEventBefore({"ListenTarget"}, i)

\* C12: on a session whose target cannot be loaded, so that the navigation of
\* the pipeline fails, no action executor is called and the command, once it
\* has returned, has returned an error.
C12_PipelineFailureAbandonsActions ==
    (Established /\ ~Loads(browser.TargetURL)) =>
        /\ ExecutorCalls = 0
        /\ pc = "done" => ret # NoError

Executors == {"GetTextBySelector", "GetBodyText", "TakeScreenshot", "PrintToPDF"}

\* The text by which the command's error names the action that failed.
FailureText ==
    [GetTextBySelector |-> "failed to get text by selector: ",
     GetBodyText       |-> "failed to get body text: ",
     TakeScreenshot    |-> "failed to take screenshot: ",
     PrintToPDF        |-> "failed to print to PDF: "]

\* In this step the executor m returns to its caller.
ExecutorReturns(m) ==
    \/ inflight = m /\ inflight' = "none"
    \/ calls'[m] = calls[m] + 1 /\ inflight' = "none"

\* The actions the command line asks for.
Requested(m) ==
    CASE m = "GetTextBySelector" -> input.GetTextByCssSelector # << >>
      [] m = "GetBodyText"       -> input.GetBody
      [] m = "TakeScreenshot"    -> input.Screenshot
      [] m = "PrintToPDF"        -> input.PrintToPDF

\* C15: a command that returns success has called every requested executor
\* once and the last call succeeded; and an executor that returns an error
\* makes the command return, in that step, an error that starts with the text
\* naming that action and carries the executor's error.
C15_NoSilentPartialSuccess ==
    /\ [](pc = "done" /\ ret = NoError =>
            /\ Established
            /\ result = NoError
            /\ \A m \in Executors : calls[m] = IF Requested(m) THEN 1 ELSE 0)
    /\ [][\A m \in Executors :
            (ExecutorReturns(m) /\ result' # NoError) =>
                /\ pc' = "done"
                /\ ret' = [kind |-> "action", msg |-> << FailureText[m] >> \o result'.msg]]_vars

C15_Witness ==
    /\ pc = "done"
    /\ calls["GetTextBySelector"] = 1
    /\ calls["GetBodyText"] = 1
    /\ calls["TakeScreenshot"] = 1
    /\ calls["PrintToPDF"] = 0
    /\ ret = [kind |-> "action",
              msg |-> << "failed to take screenshot: ", "FullScreenshot", ": ", "<browser error>" >>]

\* ----------------------------------------------- claims on the pipeline

\* The letters a, w, a, i, t in a row somewhere in s.
HasAwaitText(s) ==
    \E i \in DOMAIN s :
        /\ i + 4 <= Len(s)
        /\ s[i] = "a" /\ s[i + 1] = "w" /\ s[i + 2] = "a" /\ s[i + 3] = "i"
        /\ s[i + 4] = "t"

EvalEvents == {i \in DOMAIN trace : trace[i].op \in {"Evaluate", "EvaluateAwait"}}

AtScript == ppc.task # 0 /\ PipelineTasks[ppc.task] = "Script"

\* C10: a configured script whose text holds "await" (in lower case, inside a
\* longer word or not) is evaluated wrapped in an async closure with its
\* promise awaited, and the script step has completed only when that promise
\* has resolved; a script without it is evaluated as it is, without awaiting;
\* only an empty script is not evaluated.
C10_AsyncDetection ==
    LET js == browser.JSCode
    IN  /\ \A i \in EvalEvents :
              IF HasAwaitText(js)
              THEN /\ trace[i].op = "EvaluateAwait"
                   /\ trace[i].arg = << "(async () => { " >> \o js \o << " })();" >>
              ELSE /\ trace[i].op = "Evaluate"
                   /\ trace[i].arg = js
        /\ (AtScript /\ ppc.phase = "waiting") => trace[Len(trace)].op \in {"Evaluate", "EvaluateAwait"}
        /\ (trace # << >> /\ trace[Len(trace)].op = "EvaluateDone" /\ HasAwaitText(js)) =>
              promise = "resolved"
        /\ (HasEvent("ScriptNoOp") \/ EvalEvents # {}) => (HasEvent("ScriptNoOp") <=> js = << >>)

C10_Witness ==
    /\ browser.JSCode = << "x", "a", "w", "a", "i", "t", "x" >>
    /\ HasEvent("EvaluateDone")
    /\ result = NoError
    /\ ppc = Idle

\* A script without the keyword has been evaluated and the pipeline has
\* returned while a promise the script left behind is still pending.
SyncScriptNotAwaited ==
    /\ browser.JSCode = << "A", "w", "a", "i", "t" >>
    /\ HasEvent("EvaluateDone")
    /\ ppc = Idle
    /\ promise = "pending"

\* Each step of the pipeline is requested right after the step before it has
\* completed, and completes right after it was requested.
StepsFollowCompletedSteps ==
    \A i \in DOMAIN trace :
        LET before == IF i > 1 THEN trace[i - 1].op ELSE "none"
        IN  /\ trace[i].op = "NavigateDone" => before = "Navigate"
            /\ trace[i].op = "Sleep" => before = "NavigateDone"
            /\ trace[i].op = "SleepDone" => before = "Sleep"
            /\ trace[i].op \in {"Evaluate", "EvaluateAwait", "ScriptNoOp"} =>
                  before = "SleepDone"
            /\ trace[i].op = "EvaluateDone" => before \in {"Evaluate", "EvaluateAwait"}

\* In this step NavigateAndPrepare returns.
PipelineReturns == ppc # Idle /\ ppc' = Idle

\* In this step the script step completes: the script was evaluated, or there
\* is no script.
ScriptStepCompletes ==
    /\ Len(trace') = Len(trace) + 1
    /\ trace'[Len(trace')].op \in {"EvaluateDone", "ScriptNoOp"}

\* C13: NavigateAndPrepare returns nil exactly when its last step, the script
\* step, completes, which takes the delay and the navigation before it to
\* have completed; a step is started only right after the step before it has
\* completed; and a return with an error starts no step.
C13_SuccessOnlyIfAllSteps ==
    /\ []StepsFollowCompletedSteps
    /\ [][PipelineReturns => (result' = NoError <=> ScriptStepCompletes)]_vars
    /\ [][(PipelineReturns /\ result' # NoError) => trace' = trace]_vars
    /\ [][(ppc = Idle /\ ppc' = Idle) => trace' = trace]_vars

C13_Witness ==
    /\ ppc = Idle
    /\ calls["NavigateAndPrepare"] = 1
    /\ result = BrowserError("Navigate")
    /\ trace[Len(trace)].op = "Navigate"
    /\ browser.JSCode # << >>

\* C14: when NavigateAndPrepare has returned an error after its navigation
\* was requested and did not complete, the error names the target; when the
\* evaluation of the script was requested and did not complete, the error is
\* a script evaluation error.
C14_ErrorNamesFailedStep ==
    (ppc = Idle /\ calls["NavigateAndPrepare"] > 0 /\ result # NoError /\ trace # << >>) =>
        /\ trace[Len(trace)].op = "Navigate" => Contains(result.msg, browser.TargetURL)
        /\ trace[Len(trace)].op \in {"Evaluate", "EvaluateAwait"} => result.kind = "script"

\* ---------------------------------------------- claims on the listeners

\* In this step the listeners handle an event, or a dialog-accept goroutine
\* runs.
BridgeStep == delivered' # delivered \/ acceptTasks' # acceptTasks

\* C16: a step in which the listeners handle a console message, an exception
\* or a dialog, or in which a dialog-accept goroutine runs and succeeds or
\* fails, changes neither what NavigateAndPrepare or an executor returned or
\* will return from, nor the command's position and result, nor the session:
\* it adds log records and, for an accept, the accept request.
C16_EventsOnlyLog ==
    [][BridgeStep =>
          /\ UNCHANGED << result, ppc, inflight, promise, page, calls, listeners >>
          /\ UNCHANGED << mainVars, initVars, ctxVars, textVars >>
          /\ \E n \in 0..Len(bridgeLog') : SubSeq(bridgeLog', 1, n) = bridgeLog
          /\ \/ trace' = trace
             \/ trace' = Append(trace, Ev("HandleJavaScriptDialog", << >>))]_vars

C16_Witness ==
    /\ pc = "client"
    /\ ppc = Idle
    /\ calls["NavigateAndPrepare"] = 1
    /\ result = NoError
    /\ delivered = << Event("exception", << >>), Event("dialog", << >>) >>
    /\ bridgeLog[Len(bridgeLog)] = AcceptFailed
    /\ trace[Len(trace)].op = "EvaluateDone"

\* In this step the listeners are called with a dialog event.
DialogDelivered ==
    /\ Len(delivered') = Len(delivered) + 1
    /\ delivered'[Len(delivered')].kind = "dialog"

\* In this step the accept of a dialog is requested from the browser.
AcceptRequested ==
    /\ Len(trace') = Len(trace) + 1
    /\ trace'[Len(trace')].op = "HandleJavaScriptDialog"

\* A step of the command.
MainStep ==
    \/ MainInitialize
    \/ InitLocal
    \/ MainInitialized
    \/ MainSelector
    \/ MainBody
    \/ MainConsole
    \/ MainScreenshot
    \/ MainSaveScreenshot
    \/ MainPDF
    \/ MainSavePDF

\* C17: the delivery of a dialog event sends no request to the browser and
\* returns having started one goroutine for each listener (one, when the
\* listeners were attached once); the accept is requested in a later step, by
\* a goroutine, one request at most for each; and neither the command nor
\* NavigateAndPrepare ever waits for a goroutine: their next step can always
\* be taken, and the command returns with goroutines that have not run.
C17_DialogAcceptDetached ==
    /\ [][DialogDelivered => (trace' = trace /\ acceptTasks' = acceptTasks + listeners)]_vars
    /\ [][AcceptRequested => (delivered' = delivered /\ acceptTasks' = acceptTasks - 1)]_vars
    /\ [][(pc # "done" /\ pc' = "done") => acceptTasks' = acceptTasks]_vars
    /\ [](pc \notin {"client", "done"} => ENABLED MainStep)
    /\ [](ppc.phase = "ready" => ENABLED TaskStart)

C17_Witness ==
    /\ pc = "done"
    /\ ret = NoError
    /\ listeners = 1
    /\ delivered = << Event("dialog", << >>), Event("dialog", << >>) >>
    /\ acceptTasks = 1
    /\ trace[Len(trace)].op = "HandleJavaScriptDialog"

\* ------------------------------------------------ claims on the session

AnExecutorReturns == \E m \in Executors : ExecutorReturns(m)

\* C18: once Cancel has been invoked on a session, a step of NavigateAndPrepare
\* or of an action executor requests nothing from the browser, and each of
\* their returns is the error of the context, never a result.
C18_CanceledSessionFails ==
    [][cancelCalls > 0 =>
          /\ trace' = trace
          /\ (PipelineReturns \/ AnExecutorReturns) =>
                /\ result' # NoError
                /\ result' = CtxError]_vars

C18_Witness ==
    /\ cancelCalls = 1
    /\ ctxErr = "Canceled"
    /\ calls["NavigateAndPrepare"] = 1
    /\ calls["TakeScreenshot"] = 1
    /\ ppc = Idle
    /\ inflight = "none"
    /\ result = [kind |-> "context", msg |-> << "context canceled" >>]
    /\ ~HasEvent("Navigate")
    /\ ~HasEvent("FullScreenshot")

NavigationsRequested == Cardinality({i \in DOMAIN trace : trace[i].op = "Navigate"})

\* In this step an action executor is called or returns.
ExecutorStep == \E m \in Executors : calls'[m] # calls[m] \/ inflight = m

DeadlineExceeded == [kind |-> "context", msg |-> << "context deadline exceeded" >>]

\* The error is the deadline's, as it is or wrapped by the script step.
IsDeadlineError(err) ==
    \/ err = DeadlineExceeded
    \/ err = [kind |-> "script",
              msg |-> << "failed to execute custom JavaScript: ",
                         "context deadline exceeded" >>]

\* In this step CaptureConsoleLogs is called and returns.
ListenersAttached == calls'["CaptureConsoleLogs"] # calls["CaptureConsoleLogs"]

\* Every call that waits returns, and the command returns.
EverythingReturns ==
    /\ (ppc # Idle) ~> (ppc = Idle)
    /\ (inflight # "none") ~> (inflight = "none")
    /\ (pc \notin {"client", "done"}) ~> (pc = "done")

\* C19 as it is stated: once the deadline has elapsed, whatever is in flight
\* and whatever operation is made on the session later returns the deadline's
\* error; every step and action returns and the command terminates.
C19_DeadlineFailsEveryOperation ==
    /\ [][ctxErr = "DeadlineExceeded" =>
            ((PipelineReturns \/ AnExecutorReturns \/ ListenersAttached) =>
                IsDeadlineError(result'))]_vars
    /\ EverythingReturns

\* C19, amended: once the deadline has elapsed, an action executor in flight
\* or called later returns the deadline's error, and so does NavigateAndPrepare,
\* in flight or called later, unless all it has left is the step of an empty
\* script; CaptureConsoleLogs returns nil; every step and action returns and
\* the command terminates.
C19_DeadlineBoundsWaiting ==
    /\ [][ctxErr = "DeadlineExceeded" =>
            /\ AnExecutorReturns => result' = DeadlineExceeded
            /\ PipelineReturns =>
                  IF AtScript /\ browser.JSCode = << >>
                  THEN result' = NoError
                  ELSE IsDeadlineError(result')
            /\ ListenersAttached => result' = NoError
            /\ \A i \in DOMAIN trace' :
                  i > Len(trace) => trace'[i].op \in {"ScriptNoOp", "ListenTarget"}]_vars
    /\ EverythingReturns

C19_Witness ==
    /\ pc = "client"
    /\ ctxErr = "DeadlineExceeded"
    /\ ppc = Idle
    /\ promise = "pending"
    /\ result = [kind |-> "script",
                 msg |-> << "failed to execute custom JavaScript: ",
                            "context deadline exceeded" >>]
    /\ trace[Len(trace)].op = "EvaluateAwait"

\* ------------------------------------------ claims on the configuration

\* The configuration is one the command rejects: an empty target, a negative
\* delay, no action.
ConfigurationError(c) ==
    \/ TrimSpace(c.Target) = << >>
    \/ c.Delay < 0
    \/ NoAction(c)

\* C21: with an empty target, a negative delay or no requested action, the
\* command's one step is to return a configuration error; InitializeChromedp
\* is never called, no request is sent to an endpoint or a browser, and no
\* allocator or context exists.
C21_ConfigErrorsBeforeBrowser ==
    /\ [](ConfigurationError(input) =>
            /\ ipc = "notcalled"
            /\ mode = "none"
            /\ \A l \in Layer : layers[l] = "none"
            /\ trace = << >>
            /\ released = << >> /\ cancelCalls = 0
            /\ pc \in {"start", "done"}
            /\ pc = "done" => ret.kind = "config")
    /\ [][ConfigurationError(input) => pc' = "done" /\ ret'.kind = "config"]_vars

C21_Witness ==
    /\ pc = "done"
    /\ TrimSpace(input.Target) # << >>
    /\ input.Delay >= 0
    /\ input.RemoteDebuggingPort # << >>
    /\ NoAction(input)
    /\ ret = Errorf("config", << "at least one action must be specified" >>)
    /\ ipc = "notcalled"

\* ------------------------------------------------- claims on the text

\* The call failed for the session's sake: its context was done, or the
\* browser did not answer the request.
SessionFailure(err) == err.kind \in {"context", "browser"}

WantedTexts(elements, selector) ==
    LET matching == SelectSeq(elements,
                              LAMBDA e : Matches(e, selector) /\ JSTrim(e.text) # << >>)
    IN  [i \in 1..Len(matching) |-> JSTrim(matching[i].text)]

\* Texts with one newline between one and the next.
RECURSIVE JoinedByNewlines(_)
JoinedByNewlines(texts) ==
    IF texts = << >> THEN << >>
    ELSE IF Len(texts) = 1 THEN texts[1]
    ELSE texts[1] \o << "\n" >> \o JoinedByNewlines(Tail(texts))

\* C23: a call of GetTextBySelector that did not fail for the session's sake
\* returned no error and the trimmed, non-empty texts of the elements that
\* match the selector, in the order of the document, joined by single
\* newlines, with no newline at either end: the empty string when there are
\* none.
C23_SelectorTextJoined ==
    \A i \in DOMAIN outputs :
        LET o == outputs[i]
            wanted == WantedTexts(o.elements, o.selector)
        IN  ~SessionFailure(o.err) =>
                /\ o.err = NoError
                /\ o.text = JoinedByNewlines(wanted)
                /\ o.text # << >> => o.text[1] # "\n" /\ o.text[Len(o.text)] # "\n"
                /\ wanted = << >> => o.text = << >>

\* ------------------------------------------------ claims on the listeners

\* The browser delivers a call of the console in this step.
ConsoleDelivered ==
    /\ Len(delivered') = Len(delivered) + 1
    /\ delivered'[Len(delivered')].kind = "console"

\* The records written in this step.
NewRecords == SubSeq(bridgeLog', Len(bridgeLog) + 1, Len(bridgeLog'))

\* A value without the pair of double quotes around it, if it has one.
Unquoted(val) ==
    IF Len(val) >= 2 /\ Head(val) = DoubleQuote /\ val[Len(val)] = DoubleQuote
    THEN Tail(SubSeq(val, 1, Len(val) - 1))
    ELSE val

\* The values, unquoted, with one space between one and the next.
RECURSIVE SpaceJoined(_)
SpaceJoined(vals) ==
    IF vals = << >> THEN << >>
    ELSE IF Len(vals) = 1 THEN Unquoted(vals[1])
    ELSE SpaceJoined(SubSeq(vals, 1, Len(vals) - 1)) \o << " " >> \o Unquoted(vals[Len(vals)])

\* C24: for a call of the console each listener writes one record, of level
\* INFO, whose value is the arguments' values in order, each without the pair
\* of double quotes around it if it has one, joined by single spaces: exactly
\* one record when the listeners were attached once.
C24_ConsoleLogLine ==
    [][ConsoleDelivered =>
          /\ Len(NewRecords) = listeners
          /\ \A i \in DOMAIN NewRecords :
                /\ NewRecords[i].level = "INFO"
                /\ NewRecords[i].value = SpaceJoined(delivered'[Len(delivered')].args)]_vars

C24_Witness ==
    /\ listeners = 1
    /\ delivered = << Event("console", << << DoubleQuote, "a", DoubleQuote >>,
                                          << "a", DoubleQuote >> >>) >>
    /\ bridgeLog = << [level |-> "INFO", msg |-> "Console message captured",
                       value |-> << "a", " ", "a", DoubleQuote >>] >>

\* The records among rs with this message.
RecordsOf(rs, msg) == SelectSeq(rs, LAMBDA r : r.msg = msg)

\* C27: the listeners registered are as many as the calls of
\* CaptureConsoleLogs, k; an event the browser delivers is handled k times: k
\* records for a call of the console, k for an exception, and for a dialog
\* k records and k accept goroutines, each of which makes its one attempt.
C27_ListenersAddUp ==
    /\ [](listeners = calls["CaptureConsoleLogs"])
    /\ [][delivered' # delivered =>
            LET k == calls["CaptureConsoleLogs"]
                kind == delivered'[Len(delivered')].kind
            IN  /\ Len(delivered') = Len(delivered) + 1
                /\ k > 0
                /\ kind = "console" =>
                      /\ Len(RecordsOf(NewRecords, "Console message captured")) = k
                      /\ acceptTasks' = acceptTasks
                /\ kind = "exception" =>
                      /\ Len(RecordsOf(NewRecords, "JavaScript exception captured")) = k
                      /\ acceptTasks' = acceptTasks
                /\ kind = "dialog" =>
                      /\ Len(RecordsOf(NewRecords, DialogDetected.msg)) = k
                      /\ acceptTasks' = acceptTasks + k]_vars
    /\ [][acceptTasks' < acceptTasks =>
            /\ acceptTasks' = acceptTasks - 1
            /\ \/ trace' = Append(trace, Ev("HandleJavaScriptDialog", << >>))
               \/ ~CtxLive /\ trace' = trace /\ bridgeLog' = Append(bridgeLog, AcceptFailed)]_vars

C27_Witness ==
    /\ calls["CaptureConsoleLogs"] = 2
    /\ listeners = 2
    /\ delivered = << Event("console", << << DoubleQuote, "a", DoubleQuote >> >>),
                      Event("dialog", << >>) >>
    /\ Len(RecordsOf(bridgeLog, "Console message captured")) = 2
    /\ Len(RecordsOf(bridgeLog, DialogDetected.msg)) = 2
    /\ acceptTasks = 0
    /\ Len(SelectSeq(trace, LAMBDA e : e.op = "HandleJavaScriptDialog")) = 2

\* ------------------------------------------- claims on the empty script

\* The script step is about to start.
ScriptStepReady == AtScript /\ ppc.phase = "ready"

\* C25: with no script, the script step, once the delay has completed, runs
\* and sends nothing to the browser, and with it NavigateAndPrepare returns
\* nil; it is the last step, and it comes right after the delay; a session
\* without a script never asks for an evaluation.
C25_EmptyScriptStepRuns ==
    /\ [](browser.JSCode = << >> =>
            /\ \A i \in DOMAIN trace : trace[i].op \notin {"Evaluate", "EvaluateAwait"}
            /\ \A i \in DOMAIN trace :
                  trace[i].op = "ScriptNoOp" => i > 1 /\ trace[i - 1].op = "SleepDone"
            /\ (ppc # Idle /\ trace # << >> /\ trace[Len(trace)].op = "SleepDone")
                  => ScriptStepReady)
    /\ [][(browser.JSCode = << >> /\ ScriptStepReady /\ ppc' # ppc) =>
            /\ trace' = Append(trace, Ev("ScriptNoOp", << >>))
            /\ ppc' = Idle
            /\ result' = NoError
            /\ promise' = promise]_vars
    /\ [][(browser.JSCode = << >> /\ PipelineReturns /\ result' = NoError) =>
            /\ ScriptStepReady
            /\ trace'[Len(trace')].op = "ScriptNoOp"]_vars

C25_Witness ==
    /\ browser.JSCode = << >>
    /\ ppc = Idle
    /\ calls["NavigateAndPrepare"] = 1
    /\ result = NoError
    /\ page = "loaded"
    /\ Len(trace) >= 5
    /\ trace[Len(trace) - 1].op = "SleepDone"
    /\ trace[Len(trace)].op = "ScriptNoOp"

\* ------------------------------------------------ claims on the main flow

\* NavigateAndPrepare or an action executor is in progress.
MainFlowBusy == ppc # Idle \/ inflight # "none"

\* In this step NavigateAndPrepare or an action executor is called.
MainFlowCall ==
    \E m \in Executors \cup {"NavigateAndPrepare"} : calls'[m] = calls[m] + 1

\* C26: NavigateAndPrepare and an action executor are never in progress
\* together, nor two executors; one is called only when none is in progress,
\* and the caller moves to its next statement only when the one it called has
\* returned; while one is in progress, every other step is the listeners
\* handling an event, a dialog-accept goroutine, or the page or the deadline
\* timer, none of them a call of the main flow.
C26_OneMainFlowOperation ==
    /\ [](~(ppc # Idle /\ inflight # "none"))
    /\ [](inflight \in Executors \cup {"none"})
    /\ [][MainFlowCall => ~MainFlowBusy]_vars
    /\ [][pc' # pc => inflight' = "none" /\ ppc' = Idle]_vars
    /\ [][(MainFlowBusy /\ ppc' = ppc /\ inflight' = inflight) =>
            /\ ~MainFlowCall
            /\ UNCHANGED << pc, ret, result, calls >>
            /\ BridgeStep \/ ctxErr' # ctxErr \/ promise' # promise]_vars

C26_Witness ==
    /\ pc = "screenshot"
    /\ inflight = "TakeScreenshot"
    /\ listeners = 1
    /\ delivered = << Event("dialog", << >>) >>
    /\ acceptTasks = 0
    /\ Len(trace) >= 3
    /\ trace[Len(trace) - 1].op = "FullScreenshot"
    /\ trace[Len(trace)].op = "HandleJavaScriptDialog"

\* The actions of the command, in the order of main.go:196-265.
ActionOrder ==
    << "GetTextBySelector", "GetBodyText", "CaptureConsoleLogs", "TakeScreenshot",
       "PrintToPDF" >>

\* The action i of the order is asked for on the command line.
ActionRequested(i) ==
    IF ActionOrder[i] = "CaptureConsoleLogs" THEN input.ConsoleLog
    ELSE Requested(ActionOrder[i])

\* In this step the action i of the order is called.
ActionCalled(i) == calls'[ActionOrder[i]] = calls[ActionOrder[i]] + 1

\* C28: an action is called only if it is asked for, once, when every action
\* asked for that comes before it in the order selector text, body text,
\* console capture, screenshot, PDF has been called and none that comes after
\* it has, and when nothing has failed before: the call before it returned
\* nil; a call that returns an error, and a file that cannot be written, make
\* the command return in that step, after which nothing is called.
C28_FixedOrderStopAtFailure ==
    /\ [][\A i \in DOMAIN ActionOrder :
            ActionCalled(i) =>
                /\ ActionRequested(i)
                /\ calls[ActionOrder[i]] = 0
                /\ result = NoError
                /\ \A j \in DOMAIN ActionOrder :
                      /\ j < i => calls[ActionOrder[j]] = IF ActionRequested(j) THEN 1 ELSE 0
                      /\ j > i => calls[ActionOrder[j]] = 0]_vars
    /\ [][(inflight' = "none" /\ result' # NoError /\ (result' # result \/ inflight # "none"))
            => pc' = "done" /\ ret' # NoError]_vars
    /\ [][pc = "done" => calls' = calls /\ trace' = trace]_vars
    /\ [][(pc = "saveScreenshot" /\ pc' = "done") => calls["PrintToPDF"] = 0]_vars
    /\ [](pc = "done" /\ ret = NoError =>
            \A i \in DOMAIN ActionOrder :
                calls[ActionOrder[i]] = IF ActionRequested(i) THEN 1 ELSE 0)

C28_Witness ==
    /\ pc = "done"
    /\ input.GetTextByCssSelector # << >>
    /\ input.GetBody /\ input.ConsoleLog /\ input.Screenshot /\ input.PrintToPDF
    /\ ret = [kind |-> "action",
              msg |-> << "failed to get body text: ", "QuerySelectorAll", ": ",
                         "<browser error>" >>]
    /\ calls["GetTextBySelector"] = 1
    /\ calls["GetBodyText"] = 1
    /\ calls["CaptureConsoleLogs"] = 0
    /\ calls["TakeScreenshot"] = 0
    /\ calls["PrintToPDF"] = 0

\* An endpoint that already carries a scheme.
HasScheme(remoteDebuggingPort) ==
    HasPrefix(remoteDebuggingPort, HttpPrefix) \/ HasPrefix(remoteDebuggingPort, HttpsPrefix)

\* C29: every liveness probe goes to "http://" + endpoint + "/json/version",
\* and an endpoint that already carries "http://" or "https://" reaches
\* neither the probe nor the attachment to the browser.
C29_ProbeAddress ==
    /\ \A i \in DOMAIN trace :
          trace[i].op = "Probe" =>
              trace[i].arg = HttpPrefix \o args.remote \o JsonVersionPath
    /\ HasScheme(args.remote) =>
          ~HasEvent("Probe") /\ ~HasEvent("NewRemoteAllocator")

====
